---- MODULE Spec2Model ----
(***************************************************************************)
(* PulseAQI MQTT to InfluxDB bridge (src/mqtt_bridge.py).                  *)
(*                                                                         *)
(* Numbers.  Every floating point quantity is carried as an integer count  *)
(* of hundredths (4.5 is 450, 35.4 is 3540).  calculate_aqi_pm25 is        *)
(* evaluated in exact rational arithmetic followed by truncation toward    *)
(* zero; on every hundredth between 0.00 and 700.00 this agrees with the   *)
(* binary64 evaluation performed by the Python source.                     *)
(*                                                                         *)
(* Exceptions.  A Python call that may raise is an operator returning a    *)
(* record whose field exc names the exception ("none" when it returned).   *)
(***************************************************************************)
EXTENDS Integers, Sequences, FiniteSets, TLC

VARIABLES
    alive,        \* the process is still running client.loop_forever()
    delivered,    \* number of on_message invocations so far
    arrivals,     \* the messages delivered so far, in arrival order
    node_id,      \* on_message's local node_id as its last invocation left it
    sensor_data,  \* on_message's local sensor_data as its last invocation left it
    calls,        \* every write_api.write call made so far, in call order
    stored,       \* the records the sink has accepted, in acceptance order
    pending,      \* records handed to write_api whose write has not returned
    log,          \* the log lines of the last on_message invocation
    escaped,      \* the exception the last on_message invocation let escape
    twin,         \* a second bridge process (used to compare two histories)
    pairOut,      \* the outcomes of the last message given to both processes
    pm25In,       \* argument of calculate_aqi_pm25 under SpecAqi
    aqiOut,       \* its result, None before the call
    aqiIn,        \* argument of get_aqi_category under SpecCategory
    categoryOut,  \* its result
    wire,         \* the one message delivered under SpecWire, as encoded
    decrypted     \* a call of decrypt_payload under SpecDecrypt and its outcome

vars == <<alive, delivered, arrivals, node_id, sensor_data, calls, stored,
          pending, log, escaped, twin, pairOut, pm25In, aqiOut, aqiIn,
          categoryOut, wire, decrypted>>

(***************************************************************************)
(* Bounds of the model.                                                    *)
(***************************************************************************)
MaxMsgs == 2
MaxTwinMsgs == 1
MaxClock == 2
MaxPm25 == 60000
MaxAqi == 600

(***************************************************************************)
(* int(): truncation toward zero of the rational n/d, d > 0.               *)
(***************************************************************************)
TruncDiv(n, d) == IF n >= 0 THEN n \div d ELSE -((-n) \div d)

(***************************************************************************)
(* One breakpoint segment: int((ihi - ilo) / (hi - lo) * (pm25 - lo) + ilo)*)
(* with pm25, lo and hi in hundredths.                                     *)
(***************************************************************************)
InterpolateRounded(pm25, lo, hi, ilo, ihi) ==
    TruncDiv(2 * ((ihi - ilo) * (pm25 - lo) + ilo * (hi - lo)) + (hi - lo),
             2 * (hi - lo))

Interpolate(pm25, lo, hi, ilo, ihi) ==
    TruncDiv((ihi - ilo) * (pm25 - lo) + ilo * (hi - lo), hi - lo)

calculate_aqi_pm25_contiguous(pm25) ==
    IF pm25 <= 1200 THEN Interpolate(pm25, 0, 1200, 0, 50)
    ELSE IF pm25 <= 3540 THEN Interpolate(pm25, 1200, 3540, 50, 100)
    ELSE IF pm25 <= 5540 THEN Interpolate(pm25, 3540, 5540, 100, 150)
    ELSE IF pm25 <= 15040 THEN Interpolate(pm25, 5540, 15040, 150, 200)
    ELSE IF pm25 <= 25040 THEN Interpolate(pm25, 15040, 25040, 200, 300)
    ELSE Interpolate(pm25, 25040, 50040, 300, 500)

calculate_aqi_pm25_int_slope(pm25) ==
    IF pm25 <= 1200 THEN TruncDiv(TruncDiv(5000, 1200) * pm25, 100)
    ELSE IF pm25 <= 3540 THEN TruncDiv(TruncDiv(4900, 2330) * (pm25 - 1210), 100) + 51
    ELSE IF pm25 <= 5540 THEN TruncDiv(TruncDiv(4900, 1990) * (pm25 - 3550), 100) + 101
    ELSE IF pm25 <= 15040 THEN TruncDiv(TruncDiv(4900, 9490) * (pm25 - 5550), 100) + 151
    ELSE IF pm25 <= 25040 THEN TruncDiv(TruncDiv(9900, 9990) * (pm25 - 15050), 100) + 201
    ELSE TruncDiv(TruncDiv(19900, 24990) * (pm25 - 25050), 100) + 301

calculate_aqi_pm25_clamped(pm25) ==
    IF pm25 <= 1200 THEN Interpolate(pm25, 0, 1200, 0, 50)
    ELSE IF pm25 <= 3540 THEN Interpolate(pm25, 1210, 3540, 51, 100)
    ELSE IF pm25 <= 5540 THEN Interpolate(pm25, 3550, 5540, 101, 150)
    ELSE IF pm25 <= 15040 THEN Interpolate(pm25, 5550, 15040, 151, 200)
    ELSE IF pm25 <= 25040 THEN Interpolate(pm25, 15050, 25040, 201, 300)
    ELSE IF pm25 <= 50040 THEN Interpolate(pm25, 25050, 50040, 301, 500)
    ELSE 500

calculate_aqi_pm25_low_index(pm25) ==
    IF pm25 <= 1200 THEN Interpolate(pm25, 0, 1200, 0, 50)
    ELSE IF pm25 <= 3540 THEN Interpolate(pm25, 1210, 3540, 51, 100)
    ELSE IF pm25 <= 5540 THEN Interpolate(pm25, 3550, 5540, 101, 150)
    ELSE IF pm25 <= 15040 THEN Interpolate(pm25, 5550, 15040, 101, 200)
    ELSE IF pm25 <= 25040 THEN Interpolate(pm25, 15050, 25040, 201, 300)
    ELSE Interpolate(pm25, 25050, 50040, 301, 500)

calculate_aqi_pm25(pm25) ==
    IF pm25 <= 1200 THEN Interpolate(pm25, 0, 1200, 0, 50)
    ELSE IF pm25 <= 3540 THEN Interpolate(pm25, 1210, 3540, 51, 100)
    ELSE IF pm25 <= 5540 THEN Interpolate(pm25, 3550, 5540, 101, 150)
    ELSE IF pm25 <= 15040 THEN Interpolate(pm25, 5550, 15040, 151, 200)
    ELSE IF pm25 <= 25040 THEN Interpolate(pm25, 15050, 25040, 201, 300)
    ELSE Interpolate(pm25, 25050, 50040, 301, 500)

get_aqi_category_five_bands(aqi) ==
    IF aqi <= 50 THEN "Good"
    ELSE IF aqi <= 150 THEN "Moderate"
    ELSE IF aqi <= 200 THEN "Unhealthy"
    ELSE IF aqi <= 300 THEN "Very Unhealthy"
    ELSE "Hazardous"

get_aqi_category_exclusive(aqi) ==
    IF aqi < 50 THEN "Good"
    ELSE IF aqi < 100 THEN "Moderate"
    ELSE IF aqi < 150 THEN "Unhealthy for Sensitive Groups"
    ELSE IF aqi < 200 THEN "Unhealthy"
    ELSE IF aqi < 300 THEN "Very Unhealthy"
    ELSE "Hazardous"

get_aqi_category(aqi) ==
    IF aqi <= 50 THEN "Good"
    ELSE IF aqi <= 100 THEN "Moderate"
    ELSE IF aqi <= 150 THEN "Unhealthy for Sensitive Groups"
    ELSE IF aqi <= 200 THEN "Unhealthy"
    ELSE IF aqi <= 300 THEN "Very Unhealthy"
    ELSE "Hazardous"

(***************************************************************************)
(* Python values.  Every value is a record with a kind: None, int (v in    *)
(* units), float (v in hundredths), str (s a sequence of tokens) and dict  *)
(* (items a function from keys to values).                                 *)
(***************************************************************************)
NoneV == [kind |-> "None"]
IntV(n) == [kind |-> "int", v |-> n]
FloatV(h) == [kind |-> "float", v |-> h]
StrV(toks) == [kind |-> "str", s |-> toks]
DictV(f) == [kind |-> "dict", items |-> f]

(***************************************************************************)
(* Characters of a str are grouped into tokens: a run of whitespace, the   *)
(* braces, a "key": value member of a JSON object (its separating comma    *)
(* included), a word of other characters.                                  *)
(***************************************************************************)
Tok(t) == [t |-> t, k |-> "", v |-> NoneV]
WS == Tok("ws")
LB == Tok("{")
RB == Tok("}")
Word(w) == [t |-> "w", k |-> w, v |-> NoneV]
KV(key, val) == [t |-> "kv", k |-> key, v |-> val]

Ok(val) == [exc |-> "none", val |-> val]
Raise(e) == [exc |-> e, val |-> NoneV]

(* bool(x) as used by "if not x" *)
Truthy(x) ==
    CASE x.kind = "None" -> FALSE
      [] x.kind = "int" -> x.v # 0
      [] x.kind = "float" -> x.v # 0
      [] x.kind = "str" -> Len(x.s) > 0
      [] x.kind = "dict" -> DOMAIN x.items # {}
      [] OTHER -> TRUE

(* float(x): a str converts when it is one word spelling a number; such a  *)
(* word carries its value in hundredths as NumWord does.                   *)
NumWord(h) == [t |-> "num", k |-> "", v |-> FloatV(h)]

float(x) ==
    CASE x.kind = "int" -> Ok(x.v * 100)
      [] x.kind = "float" -> Ok(x.v)
      [] x.kind = "str" ->
           IF Len(x.s) = 1 /\ x.s[1].t = "num" THEN Ok(x.s[1].v.v)
           ELSE Raise("ValueError")
      [] OTHER -> Raise("TypeError")

(* str.startswith('{') *)
startswith_brace(s) == Len(s) > 0 /\ s[1].t = "{"

RECURSIVE lstrip(_)
lstrip(s) == IF Len(s) > 0 /\ s[1].t = "ws" THEN lstrip(Tail(s)) ELSE s

RECURSIVE rstrip(_)
rstrip(s) ==
    IF Len(s) > 0 /\ s[Len(s)].t = "ws" THEN rstrip(SubSeq(s, 1, Len(s) - 1))
    ELSE s

(* str.strip() *)
strip(s) == rstrip(lstrip(s))

(***************************************************************************)
(* json.loads on a str: surrounding whitespace is skipped; an object is an *)
(* opening brace, members, a closing brace, and a repeated key keeps its   *)
(* last value; a lone number is a number.  Anything else raises            *)
(* JSONDecodeError.                                                        *)
(***************************************************************************)
MemberKeys(s) == {s[i].k : i \in 2..(Len(s) - 1)}

LastMember(s, key) ==
    s[CHOOSE i \in 2..(Len(s) - 1) :
          /\ s[i].k = key
          /\ \A j \in (i + 1)..(Len(s) - 1) : s[j].k # key].v

loads_stripped(body) ==
    IF /\ Len(body) >= 2
       /\ body[1].t = "{"
       /\ body[Len(body)].t = "}"
       /\ \A i \in 2..(Len(body) - 1) : body[i].t = "kv"
    THEN Ok(DictV([key \in MemberKeys(body) |-> LastMember(body, key)]))
    ELSE IF Len(body) = 1 /\ body[1].t = "num" THEN Ok(body[1].v)
    ELSE Raise("JSONDecodeError")

json_loads(s) == loads_stripped(strip(s))

(* dict.get(key, default) *)
get(d, key, default) == IF key \in DOMAIN d.items THEN d.items[key] ELSE default

(***************************************************************************)
(* bytes.  A bytes object is described by what its readers make of it:     *)
(* whether it is empty, whether it is valid UTF-8 and the str it then      *)
(* decodes to, and the result of protobuf ParseFromString on it.           *)
(***************************************************************************)
Bytes(isEmpty, isUtf8, text, parsed) ==
    [empty |-> isEmpty, utf8 |-> isUtf8, text |-> text, pb |-> parsed]

(* bytes.decode('utf-8') *)
decode_utf8(b) == IF b.utf8 THEN Ok(StrV(b.text)) ELSE Raise("UnicodeDecodeError")

(* Message.ParseFromString(bytes) *)
ParseFromString(b) == b.pb

(***************************************************************************)
(* Meshtastic protobuf messages.  A 32-bit header value is kept as two     *)
(* 16-bit halves.  Reading a scalar field that is not set yields the       *)
(* protobuf default 0, and the generated MeshPacket class names its sender *)
(* header "from".                                                          *)
(***************************************************************************)
U32(hi, lo) == [hi |-> hi, lo |-> lo]
Unset == [set |-> FALSE, hi |-> 0, lo |-> 0]
FromHeader(hi, lo) == [set |-> TRUE, hi |-> hi, lo |-> lo]
NoBytes == Bytes(TRUE, TRUE, <<>>, Raise("unparsed"))
NoDecoded == [set |-> FALSE, portnum |-> 0, payload |-> NoBytes]
Decoded(port, b) == [set |-> TRUE, portnum |-> port, payload |-> b]
MeshPacket(from, decoded) == [from |-> from, decoded |-> decoded]
ServiceEnvelope(packet) == [packet |-> packet]

MeshPacketAttrs == {"from", "to", "channel", "decoded", "encrypted", "id"}
hasattr(packet, name) == name \in MeshPacketAttrs
getattr_from(packet) == U32(packet.from.hi, packet.from.lo)
HasField_decoded(packet) == packet.decoded.set

ZeroAq ==
    [pm10_standard |-> IntV(0), pm25_standard |-> IntV(0),
     pm40_standard |-> IntV(0), pm100_standard |-> IntV(0),
     pm_voc_idx |-> FloatV(0), pm_nox_idx |-> FloatV(0),
     pm_temperature |-> FloatV(0), pm_humidity |-> FloatV(0)]
Telemetry(variant, aq) == [variant |-> variant, aq |-> aq]
HasField_air_quality_metrics(telemetry) == telemetry.variant = "air_quality_metrics"

PROTOBUF_AVAILABLE == TRUE
TEXT_MESSAGE_APP_PORT == 1
TELEMETRY_APP_PORT == 67
TEXT_PORTNUM == TEXT_MESSAGE_APP_PORT
TELEMETRY_PORTNUM == TELEMETRY_APP_PORT

(* format(n, '04x') of a 16-bit half; f"!{fid:08x}" joins two of them *)
HexDigits == <<"0", "1", "2", "3", "4", "5", "6", "7",
               "8", "9", "a", "b", "c", "d", "e", "f">>
HexDigit(d) == HexDigits[d + 1]
Hex4(n) ==
    HexDigit((n \div 4096) % 16) \o HexDigit((n \div 256) % 16)
    \o HexDigit((n \div 16) % 16) \o HexDigit(n % 16)
Format08x(fid) == "!" \o Hex4(fid.hi) \o Hex4(fid.lo)

_get_node_id_from_packet_truthy(packet) ==
    LET fid == IF hasattr(packet, "from_") \/ hasattr(packet, "from")
               THEN Ok(getattr_from(packet)) ELSE Raise("None")
    IN  IF fid.exc = "none" /\ (fid.val.hi # 0 \/ fid.val.lo # 0)
        THEN StrV(<<Word(Format08x(fid.val))>>)
        ELSE NoneV

_get_node_id_from_packet(packet) ==
    LET fid == IF hasattr(packet, "from_") \/ hasattr(packet, "from")
               THEN Ok(getattr_from(packet)) ELSE Raise("None")
    IN  IF fid.exc = "none"
        THEN StrV(<<Word(Format08x(fid.val))>>)
        ELSE NoneV

(* x if x > 0 else 0, and x if x != 0 else 0 *)
PositiveOrZero(x) == IF x.v > 0 THEN x ELSE IntV(0)
NonZeroOrZero_clamped(x) == IF x.v > 0 THEN x ELSE IntV(0)

NonZeroOrZero(x) == IF x.v # 0 THEN x ELSE IntV(0)

_decode_telemetry_to_sensor_data_skip_zero(payload_bytes) ==
    LET telemetry == ParseFromString(payload_bytes)
    IN  IF telemetry.exc # "none" THEN NoneV
        ELSE IF ~HasField_air_quality_metrics(telemetry.val) THEN NoneV
        ELSE LET aq == telemetry.val.aq
                 all == [pm1 |-> aq.pm10_standard, pm25 |-> aq.pm25_standard,
                         pm4 |-> aq.pm40_standard, pm10 |-> aq.pm100_standard,
                         voc |-> aq.pm_voc_idx, nox |-> aq.pm_nox_idx,
                         t |-> aq.pm_temperature, rh |-> aq.pm_humidity]
             IN  DictV([key \in {k \in DOMAIN all : all[k].v # 0} |-> all[key]])

_decode_telemetry_to_sensor_data_any_variant(payload_bytes) ==
    LET telemetry == ParseFromString(payload_bytes)
    IN  IF telemetry.exc # "none" THEN NoneV
        ELSE LET aq == telemetry.val.aq
             IN  DictV([pm1 |-> PositiveOrZero(aq.pm10_standard),
                        pm25 |-> PositiveOrZero(aq.pm25_standard),
                        pm4 |-> PositiveOrZero(aq.pm40_standard),
                        pm10 |-> PositiveOrZero(aq.pm100_standard),
                        voc |-> PositiveOrZero(aq.pm_voc_idx),
                        nox |-> PositiveOrZero(aq.pm_nox_idx),
                        t |-> NonZeroOrZero(aq.pm_temperature),
                        rh |-> NonZeroOrZero(aq.pm_humidity)])

_decode_telemetry_to_sensor_data_pm10_as_pm1(payload_bytes) ==
    LET telemetry == ParseFromString(payload_bytes)
    IN  IF telemetry.exc # "none" THEN NoneV
        ELSE IF ~HasField_air_quality_metrics(telemetry.val) THEN NoneV
        ELSE LET aq == telemetry.val.aq
             IN  DictV([pm1 |-> PositiveOrZero(aq.pm100_standard),
                        pm25 |-> PositiveOrZero(aq.pm25_standard),
                        pm4 |-> PositiveOrZero(aq.pm40_standard),
                        pm10 |-> PositiveOrZero(aq.pm10_standard),
                        voc |-> PositiveOrZero(aq.pm_voc_idx),
                        nox |-> PositiveOrZero(aq.pm_nox_idx),
                        t |-> NonZeroOrZero(aq.pm_temperature),
                        rh |-> NonZeroOrZero(aq.pm_humidity)])

_decode_telemetry_to_sensor_data(payload_bytes) ==
    LET telemetry == ParseFromString(payload_bytes)
    IN  IF telemetry.exc # "none" THEN NoneV
        ELSE IF ~HasField_air_quality_metrics(telemetry.val) THEN NoneV
        ELSE LET aq == telemetry.val.aq
             IN  DictV([pm1 |-> PositiveOrZero(aq.pm10_standard),
                        pm25 |-> PositiveOrZero(aq.pm25_standard),
                        pm4 |-> PositiveOrZero(aq.pm40_standard),
                        pm10 |-> PositiveOrZero(aq.pm100_standard),
                        voc |-> PositiveOrZero(aq.pm_voc_idx),
                        nox |-> PositiveOrZero(aq.pm_nox_idx),
                        t |-> NonZeroOrZero(aq.pm_temperature),
                        rh |-> NonZeroOrZero(aq.pm_humidity)])

(***************************************************************************)
(* The sink.  write_api.write(record=point) under the configured write     *)
(* options: a synchronous write returns once the sink has accepted the     *)
(* record or raises; an asynchronous one returns at once and leaves the    *)
(* record in flight.  up tells whether the sink accepts the record.        *)
(***************************************************************************)
write_options_async == "ASYNCHRONOUS"

write_options == "SYNCHRONOUS"

write_api_write(point, up) ==
    IF write_options = "SYNCHRONOUS"
    THEN IF up THEN [exc |-> "none", stored |-> <<point>>, pending |-> <<>>]
               ELSE [exc |-> "ApiException", stored |-> <<>>, pending |-> <<>>]
    ELSE [exc |-> "none", stored |-> <<>>, pending |-> <<point>>]

Line(level, line) == [level |-> level, line |-> line]

Point(nid, timestamp_ms, f, aqi, category) ==
    IF \E key \in DOMAIN f : f[key].exc # "none"
    THEN Raise(f[CHOOSE key \in DOMAIN f : f[key].exc # "none"].exc)
    ELSE Ok([measurement |-> "air_quality",
             node_id |-> nid,
             aqi_category |-> category,
             pm1 |-> f["pm1"].val, pm25 |-> f["pm25"].val,
             pm4 |-> f["pm4"].val, pm10 |-> f["pm10"].val,
             voc |-> f["voc"].val, nox |-> f["nox"].val,
             temperature |-> f["t"].val, humidity |-> f["rh"].val,
             aqi |-> aqi,
             time |-> timestamp_ms * 1000000])

make_influx_point_swapped(nid, timestamp_ms, sd, aqi, category) ==
    Point(nid, timestamp_ms,
          [key \in {"pm1", "pm25", "pm4", "pm10", "voc", "nox", "t", "rh"}
              |-> float(sd.items[CASE key = "t" -> "rh"
                                   [] key = "rh" -> "t"
                                   [] OTHER -> key])],
          aqi, category)

make_influx_point(nid, timestamp_ms, sd, aqi, category) ==
    Point(nid, timestamp_ms,
          [key \in {"pm1", "pm25", "pm4", "pm10", "voc", "nox", "t", "rh"}
              |-> float(sd.items[key])],
          aqi, category)

(* The outcome of write_to_influxdb: its return value, the write calls it  *)
(* made, what reached the sink, what it left in flight, what it logged.    *)
write_to_influxdb_retry(point, up) ==
    LET w == write_api_write(point, up)
    IN  IF w.exc = "none"
        THEN [ret |-> TRUE, attempts |-> <<[point |-> point, ok |-> TRUE]>>,
              stored |-> w.stored, pending |-> w.pending,
              log |-> <<Line("info", 117)>>]
        ELSE [ret |-> FALSE,
              attempts |-> <<[point |-> point, ok |-> FALSE],
                             [point |-> point, ok |-> FALSE]>>,
              stored |-> <<>>, pending |-> <<>>,
              log |-> <<Line("error", 120)>>]

write_to_influxdb(point, up) ==
    LET w == write_api_write(point, up)
    IN  IF w.exc = "none"
        THEN [ret |-> TRUE, attempts |-> <<[point |-> point, ok |-> TRUE]>>,
              stored |-> w.stored, pending |-> w.pending,
              log |-> <<Line("info", 117)>>]
        ELSE [ret |-> FALSE, attempts |-> <<[point |-> point, ok |-> FALSE]>>,
              stored |-> <<>>, pending |-> <<>>,
              log |-> <<Line("error", 120)>>]

NoWrite == [ret |-> FALSE, attempts |-> <<>>, stored |-> <<>>, pending |-> <<>>,
            log |-> <<>>]

(***************************************************************************)
(* on_message, block by block.  A block yields a flow: how control leaves  *)
(* it (falls through, returns from on_message, raises exc), the locals     *)
(* node_id and sensor_data as it leaves them, its log lines, its writes.   *)
(***************************************************************************)
Flow(ctl, exc, nid, sd, lg, wr) ==
    [ctl |-> ctl, exc |-> exc, node_id |-> nid, sensor_data |-> sd,
     log |-> lg, write |-> wr]

(* the flow fl of a block entered after the lines lg were logged *)
After(lg, fl) ==
    Flow(fl.ctl, fl.exc, fl.node_id, fl.sensor_data, lg \o fl.log, fl.write)

(* lines 196-197 *)
EnterFrameStale(prev) == [node_id |-> prev.node_id, sensor_data |-> prev.sensor_data]

EnterFrame(prev) == [node_id |-> NoneV, sensor_data |-> NoneV]

(* line 212 *)
json_sensor_data(sender, sd, parsed) ==
    IF parsed.exc # "none"
    THEN Flow("raise", parsed.exc, sender, sd, <<Line("debug", 202)>>, NoWrite)
    ELSE Flow("fall", "none", sender, parsed.val, <<Line("debug", 202)>>, NoWrite)

(* lines 209-212: .get('text', '') of the payload member, startswith *)
json_sensor_text(sender, sd, sensor_text) ==
    IF sensor_text.kind # "str"
    THEN Flow("raise", "AttributeError", sender, sd, <<Line("debug", 202)>>, NoWrite)
    ELSE IF ~startswith_brace(sensor_text.s)
    THEN Flow("fall", "none", sender, sd, <<Line("debug", 202)>>, NoWrite)
    ELSE json_sensor_data(sender, sd, json_loads(sensor_text.s))

(* lines 208-209 *)
json_text_message(sender, sd, inner) ==
    IF inner.kind # "dict"
    THEN Flow("raise", "AttributeError", sender, sd, <<Line("debug", 202)>>, NoWrite)
    ELSE json_sensor_text(sender, sd, get(inner, "text", StrV(<<>>)))

(* lines 202-209 *)
json_payload_type_default(fr, payload) ==
    IF payload.exc # "none"
    THEN Flow("raise", payload.exc, fr.node_id, fr.sensor_data, <<>>, NoWrite)
    ELSE IF payload.val.kind # "dict"
    THEN Flow("raise", "AttributeError", fr.node_id, fr.sensor_data,
              <<Line("debug", 202)>>, NoWrite)
    ELSE IF get(payload.val, "type", StrV(<<Word("text")>>)) # StrV(<<Word("text")>>)
    THEN Flow("return", "none", fr.node_id, fr.sensor_data,
              <<Line("debug", 202), Line("debug", 205)>>, NoWrite)
    ELSE json_text_message(get(payload.val, "sender", StrV(<<Word("unknown")>>)),
                           fr.sensor_data,
                           get(payload.val, "payload", DictV(<<>>)))

json_payload_no_default(fr, payload) ==
    IF payload.exc # "none"
    THEN Flow("raise", payload.exc, fr.node_id, fr.sensor_data, <<>>, NoWrite)
    ELSE IF payload.val.kind # "dict"
    THEN Flow("raise", "AttributeError", fr.node_id, fr.sensor_data,
              <<Line("debug", 202)>>, NoWrite)
    ELSE IF get(payload.val, "type", NoneV) # StrV(<<Word("text")>>)
    THEN Flow("return", "none", fr.node_id, fr.sensor_data,
              <<Line("debug", 202), Line("debug", 205)>>, NoWrite)
    ELSE json_text_message(get(payload.val, "sender", NoneV),
                           fr.sensor_data,
                           get(payload.val, "payload", DictV(<<>>)))

json_payload(fr, payload) ==
    IF payload.exc # "none"
    THEN Flow("raise", payload.exc, fr.node_id, fr.sensor_data, <<>>, NoWrite)
    ELSE IF payload.val.kind # "dict"
    THEN Flow("raise", "AttributeError", fr.node_id, fr.sensor_data,
              <<Line("debug", 202)>>, NoWrite)
    ELSE IF get(payload.val, "type", NoneV) # StrV(<<Word("text")>>)
    THEN Flow("return", "none", fr.node_id, fr.sensor_data,
              <<Line("debug", 202), Line("debug", 205)>>, NoWrite)
    ELSE json_text_message(get(payload.val, "sender", StrV(<<Word("unknown")>>)),
                           fr.sensor_data,
                           get(payload.val, "payload", DictV(<<>>)))

(* line 201: json.loads(msg.payload.decode('utf-8')) *)
loads_decoded(str) == IF str.exc = "none" THEN json_loads(str.val.s) ELSE str

(* lines 201-212: the body of the first inner try *)
json_branch(fr, msg) == json_payload(fr, loads_decoded(decode_utf8(msg.payload)))

text_sensor_data_unguarded(nid, sd, parsed) ==
    IF parsed.exc # "none"
    THEN Flow("return", "none", nid, sd,
              <<Line("debug", 250), Line("debug", 258), Line("error", 289)>>,
              NoWrite)
    ELSE Flow("fall", "none", nid, parsed.val,
              <<Line("debug", 250), Line("debug", 258), Line("info", 264)>>,
              NoWrite)

(* lines 263-267 *)
text_sensor_data(nid, sd, parsed) ==
    IF parsed.exc # "none"
    THEN Flow("return", "none", nid, sd,
              <<Line("debug", 250), Line("debug", 258), Line("warning", 266)>>,
              NoWrite)
    ELSE Flow("fall", "none", nid, parsed.val,
              <<Line("debug", 250), Line("debug", 258), Line("info", 264)>>,
              NoWrite)

(* lines 254-270 *)
text_decoded(nid, sd, text_payload) ==
    IF text_payload.exc # "none"
    THEN Flow("return", "none", nid, sd,
              <<Line("debug", 250), Line("warning", 255)>>, NoWrite)
    ELSE IF ~startswith_brace(strip(text_payload.val.s))
    THEN Flow("return", "none", nid, sd,
              <<Line("debug", 250), Line("debug", 258), Line("debug", 269)>>,
              NoWrite)
    ELSE text_sensor_data(nid, sd, json_loads(text_payload.val.s))

(* lines 248-270: port 1, TEXT_MESSAGE_APP *)
text_port(nid, sd, payload_bytes) == text_decoded(nid, sd, decode_utf8(payload_bytes))

(* lines 277-281 *)
telemetry_sensor_data(nid, decoded) ==
    IF ~Truthy(decoded)
    THEN Flow("return", "none", nid, decoded,
              <<Line("debug", 274), Line("debug", 278)>>, NoWrite)
    ELSE Flow("fall", "none", nid, decoded,
              <<Line("debug", 274), Line("info", 281)>>, NoWrite)

(* lines 272-281: port 67, TELEMETRY_APP *)
telemetry_port(nid, payload_bytes) ==
    telemetry_sensor_data(nid, _decode_telemetry_to_sensor_data(payload_bytes))

pb_decoded_text_by_default(nid, sd, port, payload_bytes) ==
    IF payload_bytes.empty
    THEN Flow("return", "none", nid, sd,
              <<Line("debug", 224), Line("debug", 238), Line("debug", 244)>>,
              NoWrite)
    ELSE IF port = TELEMETRY_PORTNUM
    THEN After(<<Line("debug", 224), Line("debug", 238)>>,
               telemetry_port(nid, payload_bytes))
    ELSE After(<<Line("debug", 224), Line("debug", 238)>>,
               text_port(nid, sd, payload_bytes))

(* lines 237-286 *)
pb_decoded(nid, sd, port, payload_bytes) ==
    IF payload_bytes.empty
    THEN Flow("return", "none", nid, sd,
              <<Line("debug", 224), Line("debug", 238), Line("debug", 244)>>,
              NoWrite)
    ELSE IF port = TEXT_PORTNUM
    THEN After(<<Line("debug", 224), Line("debug", 238)>>,
               text_port(nid, sd, payload_bytes))
    ELSE IF port = TELEMETRY_PORTNUM
    THEN After(<<Line("debug", 224), Line("debug", 238)>>,
               telemetry_port(nid, payload_bytes))
    ELSE Flow("return", "none", nid, sd,
              <<Line("debug", 224), Line("debug", 238), Line("debug", 285)>>,
              NoWrite)

(* A packet without a decoded sub-message may carry encrypted bytes; they  *)
(* are modelled by the sub-message a decryption of them would yield.  The  *)
(* handler never reads them.                                               *)
pb_packet_decrypting(nid, sd, packet) ==
    IF ~Truthy(nid)
    THEN Flow("return", "none", nid, sd,
              <<Line("debug", 224), Line("warning", 229)>>, NoWrite)
    ELSE IF ~HasField_decoded(packet)
    THEN IF "encrypted" \in DOMAIN packet /\ packet.encrypted.plain.set
         THEN pb_decoded(nid, sd, packet.encrypted.plain.portnum,
                         packet.encrypted.plain.payload)
         ELSE Flow("return", "none", nid, sd,
                   <<Line("debug", 224), Line("debug", 234)>>, NoWrite)
    ELSE pb_decoded(nid, sd, packet.decoded.portnum, packet.decoded.payload)

(* lines 227-241 *)
pb_packet(nid, sd, packet) ==
    IF ~Truthy(nid)
    THEN Flow("return", "none", nid, sd,
              <<Line("debug", 224), Line("warning", 229)>>, NoWrite)
    ELSE IF ~HasField_decoded(packet)
    THEN Flow("return", "none", nid, sd,
              <<Line("debug", 224), Line("debug", 234)>>, NoWrite)
    ELSE pb_decoded(nid, sd, packet.decoded.portnum, packet.decoded.payload)

(* lines 221-227 *)
pb_envelope(fr, envelope) ==
    IF envelope.exc # "none"
    THEN Flow("return", "none", fr.node_id, fr.sensor_data,
              <<Line("error", 289)>>, NoWrite)
    ELSE pb_packet(_get_node_id_from_packet(envelope.val.packet), fr.sensor_data,
                   envelope.val.packet)

(* lines 216-290: the handler of the first inner try, entered on           *)
(* UnicodeDecodeError or JSONDecodeError.  Every exception raised inside   *)
(* is caught at line 288, which returns from on_message.                   *)
pb_branch(fr, msg) ==
    IF ~PROTOBUF_AVAILABLE
    THEN Flow("return", "none", fr.node_id, fr.sensor_data,
              <<Line("debug", 217)>>, NoWrite)
    ELSE pb_envelope(fr, ParseFromString(msg.payload))

(* lines 199-290: the first inner try with its handler *)
InnerCatches == {"UnicodeDecodeError", "JSONDecodeError"}

inner_except(first, msg) ==
    IF first.ctl = "raise" /\ first.exc \in InnerCatches
    THEN After(first.log,
               pb_branch([node_id |-> first.node_id,
                          sensor_data |-> first.sensor_data], msg))
    ELSE first

decode_step(fr, msg) == inner_except(json_branch(fr, msg), msg)

RequiredFields == {"pm1", "pm25", "pm4", "pm10", "voc", "nox", "t", "rh"}

(* line 315 *)
tail_write(nid, sd, w) ==
    Flow("return", "none", nid, sd, <<Line("info", 308)>> \o w.log, w)

(* lines 311-315 *)
tail_point(nid, sd, point, up) ==
    IF point.exc # "none"
    THEN Flow("raise", point.exc, nid, sd, <<Line("info", 308)>>, NoWrite)
    ELSE tail_write(nid, sd, write_to_influxdb(point.val, up))

(* lines 305-312 *)
tail_aqi(nid, sd, aqi, now) ==
    make_influx_point(nid, now, sd, aqi, get_aqi_category(aqi))

(* lines 304-315 *)
tail_pm25(nid, sd, pm25, now, up) ==
    IF pm25.exc # "none"
    THEN Flow("raise", pm25.exc, nid, sd, <<>>, NoWrite)
    ELSE tail_point(nid, sd, tail_aqi(nid, sd, calculate_aqi_pm25(pm25.val), now), up)

tail_step_defaulting(nid, sd, now, up) ==
    IF ~Truthy(nid) \/ ~Truthy(sd)
    THEN Flow("return", "none", nid, sd, <<Line("debug", 294)>>, NoWrite)
    ELSE tail_pm25(nid,
                   DictV([k \in RequiredFields \cup DOMAIN sd.items |->
                             IF k \in DOMAIN sd.items THEN sd.items[k]
                             ELSE IntV(0)]),
                   IF "pm25" \in DOMAIN sd.items THEN float(sd.items["pm25"])
                   ELSE float(IntV(0)),
                   now, up)

(* lines 292-315: validation, AQI, point, write *)
tail_step(nid, sd, now, up) ==
    IF ~Truthy(nid) \/ ~Truthy(sd)
    THEN Flow("return", "none", nid, sd, <<Line("debug", 294)>>, NoWrite)
    ELSE IF ~(RequiredFields \subseteq DOMAIN sd.items)
    THEN Flow("return", "none", nid, sd, <<Line("warning", 300)>>, NoWrite)
    ELSE tail_pm25(nid, sd, float(sd.items["pm25"]), now, up)

(* lines 317-320: the handlers of the outer try *)
outer_except_json_only(fl) ==
    IF fl.ctl = "raise" /\ fl.exc = "JSONDecodeError"
    THEN Flow("return", "none", fl.node_id, fl.sensor_data,
              fl.log \o <<Line("error", 318)>>, fl.write)
    ELSE fl

outer_except_reraise(fl) ==
    IF fl.ctl = "raise"
    THEN Flow("raise", fl.exc, fl.node_id, fl.sensor_data,
              fl.log \o <<Line("error", 320)>>, fl.write)
    ELSE fl

outer_except(fl) ==
    IF fl.ctl = "raise" /\ fl.exc = "JSONDecodeError"
    THEN Flow("return", "none", fl.node_id, fl.sensor_data,
              fl.log \o <<Line("error", 318)>>, fl.write)
    ELSE IF fl.ctl = "raise"
    THEN Flow("return", "none", fl.node_id, fl.sensor_data,
              fl.log \o <<Line("error", 320)>>, fl.write)
    ELSE fl

(* lines 195-315: the body of the outer try *)
try_body(dec, now, up) ==
    IF dec.ctl = "fall"
    THEN After(dec.log, tail_step(dec.node_id, dec.sensor_data, now, up))
    ELSE dec

(* lines 193-320 *)
on_message(prev, msg, now, up) ==
    outer_except(try_body(decode_step(EnterFrame(prev), msg), now, up))

(***************************************************************************)
(* Messages.  The publishers' encoders, as the repository's generators     *)
(* and tests build them.                                                   *)
(***************************************************************************)
FieldOrder == <<"pm1", "pm25", "pm4", "pm10", "voc", "nox", "t", "rh">>

(* the sample reading of the generators, with a chosen pm25 and pm10 *)
SampleFields(pm25, pm10) ==
    [pm1 |-> IntV(3), pm25 |-> pm25, pm4 |-> IntV(5), pm10 |-> pm10,
     voc |-> FloatV(10300), nox |-> FloatV(100),
     t |-> FloatV(2470), rh |-> FloatV(6380)]

(* json.dumps of a mapping whose keys are taken in the given order *)
RECURSIVE Members(_, _, _)
Members(f, order, i) ==
    IF i > Len(order) THEN <<>>
    ELSE (IF order[i] \in DOMAIN f THEN <<KV(order[i], f[order[i]])>> ELSE <<>>)
         \o Members(f, order, i + 1)

dumps(f, order) == <<LB>> \o Members(f, order, 1) \o <<RB>>

Without(f, key) == [k \in (DOMAIN f) \ {key} |-> f[k]]

Topic == "msh/US/2/e/pulse-aqi/node"
Msg(payload) == [topic |-> Topic, payload |-> payload]

(* a JSON envelope: UTF-8 text, which is no protobuf ServiceEnvelope *)
JsonPayload(text) == Bytes(FALSE, TRUE, text, Raise("DecodeError"))
JsonEnvelope(items) == JsonPayload(dumps(items, <<"type", "sender", "payload">>))
TextEnvelope(sender, text) ==
    JsonEnvelope([type |-> StrV(<<Word("text")>>), sender |-> sender,
                  payload |-> DictV([text |-> StrV(text)])])

(* a serialized ServiceEnvelope: bytes that are no JSON document *)
PbPayload(envelope) == Bytes(FALSE, FALSE, <<>>, Ok(envelope))
TextBytes(text) == Bytes(Len(text) = 0, TRUE, text, Raise("DecodeError"))
TelemetryBytes(telemetry) ==
    Bytes(telemetry.variant = "none", FALSE, <<>>, Ok(telemetry))
BinaryEnvelope(from, port, payload) ==
    PbPayload(ServiceEnvelope(MeshPacket(from, Decoded(port, payload))))

(* the three end-to-end scenarios *)
Scenario1Msg ==
    Msg(TextEnvelope(StrV(<<Word("nodeA")>>),
                     dumps(SampleFields(FloatV(450), IntV(5)), FieldOrder)))
Scenario2Msg ==
    Msg(BinaryEnvelope(FromHeader(59138, 34741), 1,
                       TextBytes(dumps(SampleFields(IntV(45), IntV(50)), FieldOrder))))
Scenario3Msg ==
    Msg(BinaryEnvelope(FromHeader(4660, 22136), 67,
                       TelemetryBytes(Telemetry("air_quality_metrics", ZeroAq))))

(* faulty messages *)
NotAnObjectMsg == Msg(JsonPayload(<<NumWord(4200)>>))
NoiseMsg == Msg(Bytes(FALSE, FALSE, <<>>, Raise("DecodeError")))
PlainTextMsg == Msg(TextEnvelope(StrV(<<Word("nodeB")>>), <<Word("hello")>>))
MissingFieldMsg ==
    Msg(TextEnvelope(StrV(<<Word("nodeB")>>),
                     dumps(Without(SampleFields(FloatV(450), IntV(5)), "rh"), FieldOrder)))
BadValueMsg ==
    Msg(TextEnvelope(StrV(<<Word("nodeB")>>),
                     dumps(SampleFields(StrV(<<Word("n/a")>>), IntV(5)), FieldOrder)))
EncryptedMsg ==
    Msg(PbPayload(ServiceEnvelope(MeshPacket(FromHeader(4660, 22136), NoDecoded))))

NonTextTypeMsg ==
    Msg(JsonEnvelope([type |-> StrV(<<Word("position")>>),
                      sender |-> StrV(<<Word("nodeB")>>),
                      payload |-> DictV([text |-> StrV(dumps(SampleFields(FloatV(450), IntV(5)),
                                                             FieldOrder))])]))
PayloadNotDictMsg ==
    Msg(JsonEnvelope([type |-> StrV(<<Word("text")>>),
                      sender |-> StrV(<<Word("nodeB")>>),
                      payload |-> StrV(<<Word("hello")>>)]))
NestedInvalidMsg ==
    Msg(TextEnvelope(StrV(<<Word("nodeB")>>), <<LB, Word("pm25")>>))
EmptySenderMsg ==
    Msg(TextEnvelope(StrV(<<>>), dumps(SampleFields(FloatV(450), IntV(5)), FieldOrder)))
NullFieldMsg ==
    Msg(TextEnvelope(StrV(<<Word("nodeB")>>),
                     dumps([SampleFields(FloatV(450), IntV(5)) EXCEPT !["t"] = NoneV],
                           FieldOrder)))
EmptyBytesMsg ==
    Msg(Bytes(TRUE, TRUE, <<>>, Ok(ServiceEnvelope(MeshPacket(Unset, NoDecoded)))))
Node12345678 == FromHeader(4660, 22136)
EmptyPayloadMsg == Msg(BinaryEnvelope(Node12345678, 1, TextBytes(<<>>)))
NotUtf8Msg ==
    Msg(BinaryEnvelope(Node12345678, 1, Bytes(FALSE, FALSE, <<>>, Raise("DecodeError"))))
NotJsonMsg == Msg(BinaryEnvelope(Node12345678, 1, TextBytes(<<Word("Hello World")>>)))
TruncatedJsonMsg ==
    Msg(BinaryEnvelope(Node12345678, 1, TextBytes(<<LB, KV("pm25", IntV(4))>>)))
DeviceMetricsMsg ==
    Msg(BinaryEnvelope(Node12345678, 67, TelemetryBytes(Telemetry("device_metrics", ZeroAq))))
OtherPortMsg ==
    Msg(BinaryEnvelope(Node12345678, 3,
                       TextBytes(dumps(SampleFields(IntV(45), IntV(50)), FieldOrder))))

(* The stream delivers messages of this catalogue; histories record the    *)
(* catalogue names of the messages delivered.                              *)
WellFormedMsgs == {"Scenario1", "Scenario2", "Scenario3"}
FaultyMsgs == {"NotAnObject", "Noise", "PlainText", "MissingField",
               "BadValue", "Encrypted", "NonTextType", "PayloadNotDict",
               "NestedInvalid", "EmptySender", "NullField", "EmptyBytes",
               "EmptyPayload", "NotUtf8", "NotJson", "TruncatedJson",
               "DeviceMetrics", "OtherPort"}
StreamMsgs == WellFormedMsgs \cup FaultyMsgs

Catalogue ==
    [Scenario1 |-> Scenario1Msg, Scenario2 |-> Scenario2Msg,
     Scenario3 |-> Scenario3Msg, NotAnObject |-> NotAnObjectMsg,
     Noise |-> NoiseMsg, PlainText |-> PlainTextMsg,
     MissingField |-> MissingFieldMsg, BadValue |-> BadValueMsg,
     Encrypted |-> EncryptedMsg, NonTextType |-> NonTextTypeMsg,
     PayloadNotDict |-> PayloadNotDictMsg, NestedInvalid |-> NestedInvalidMsg,
     EmptySender |-> EmptySenderMsg, NullField |-> NullFieldMsg,
     EmptyBytes |-> EmptyBytesMsg, EmptyPayload |-> EmptyPayloadMsg,
     NotUtf8 |-> NotUtf8Msg, NotJson |-> NotJsonMsg,
     TruncatedJson |-> TruncatedJsonMsg, DeviceMetrics |-> DeviceMetricsMsg,
     OtherPort |-> OtherPortMsg]

Message(name) == Catalogue[name]

(***************************************************************************)
(* The bridge process.  client.loop_forever() calls on_message for one     *)
(* message at a time; an exception that escapes on_message leaves          *)
(* loop_forever and main, and the process exits.                           *)
(***************************************************************************)
Clock == 1..MaxClock

NoDecrypt == [done |-> FALSE]
NotComputed == [done |-> FALSE, aqi |-> 0]
NoCategory == [done |-> FALSE, category |-> ""]
NoWire == [form |-> "none"]
NoFrame == [node_id |-> NoneV, sensor_data |-> NoneV]
TwinInit == [left |-> NoFrame, right |-> NoFrame, nl |-> 0, nr |-> 0]
NoPair == [fed |-> FALSE, msg |-> "", prevL |-> NoFrame, prevR |-> NoFrame,
           left |-> <<>>, right |-> <<>>]

Init ==
    /\ alive = TRUE
    /\ delivered = 0
    /\ arrivals = <<>>
    /\ node_id = NoneV
    /\ sensor_data = NoneV
    /\ calls = <<>>
    /\ stored = <<>>
    /\ pending = <<>>
    /\ log = <<>>
    /\ escaped = "none"
    /\ twin = TwinInit
    /\ pairOut = NoPair
    /\ pm25In = 0
    /\ aqiOut = NotComputed
    /\ aqiIn = 0
    /\ categoryOut = NoCategory
    /\ wire = NoWire
    /\ decrypted = NoDecrypt

(* the write calls of one invocation, tagged with the message's position *)
Tagged(attempts, n) ==
    [i \in 1..Len(attempts) |->
        [seq |-> n, point |-> attempts[i].point, ok |-> attempts[i].ok]]

OnMessage(name, now, up) ==
    /\ alive
    /\ delivered < MaxMsgs
    /\ \E r \in {on_message([node_id |-> node_id, sensor_data |-> sensor_data],
                           Message(name), now, up)} :
        /\ delivered' = delivered + 1
        /\ arrivals' = Append(arrivals, name)
        /\ node_id' = r.node_id
        /\ sensor_data' = r.sensor_data
        /\ calls' = calls \o Tagged(r.write.attempts, delivered + 1)
        /\ stored' = stored \o r.write.stored
        /\ pending' = pending \o r.write.pending
        /\ log' = r.log
        /\ escaped' = IF r.ctl = "raise" THEN r.exc ELSE "none"
        /\ alive' = (r.ctl # "raise")
    /\ UNCHANGED <<twin, pairOut, pm25In, aqiOut, aqiIn, categoryOut, wire,
                   decrypted>>

Next == \E name \in StreamMsgs, now \in Clock, up \in BOOLEAN : OnMessage(name, now, up)

Spec == Init /\ [][Next]_vars

(***************************************************************************)
(* calculate_aqi_pm25 on its own: the argument is any concentration from   *)
(* 0.00 to MaxPm25 hundredths.                                             *)
(***************************************************************************)
InitAqi ==
    /\ alive = TRUE
    /\ delivered = 0
    /\ arrivals = <<>>
    /\ node_id = NoneV
    /\ sensor_data = NoneV
    /\ calls = <<>>
    /\ stored = <<>>
    /\ pending = <<>>
    /\ log = <<>>
    /\ escaped = "none"
    /\ twin = TwinInit
    /\ pairOut = NoPair
    /\ pm25In \in 0..MaxPm25
    /\ aqiOut = NotComputed
    /\ aqiIn = 0
    /\ categoryOut = NoCategory
    /\ wire = NoWire
    /\ decrypted = NoDecrypt

ComputeAqi ==
    /\ ~aqiOut.done
    /\ aqiOut' = [done |-> TRUE, aqi |-> calculate_aqi_pm25(pm25In)]
    /\ UNCHANGED <<alive, delivered, arrivals, node_id, sensor_data, calls,
                   stored, pending, log, escaped, twin, pairOut, pm25In, aqiIn,
                   categoryOut, wire, decrypted>>

NextAqi == ComputeAqi

SpecAqi == InitAqi /\ [][NextAqi]_vars

(***************************************************************************)
(* get_aqi_category on its own: the argument is any index from 0 to        *)
(* MaxAqi.                                                                 *)
(***************************************************************************)
InitCategory ==
    /\ alive = TRUE
    /\ delivered = 0
    /\ arrivals = <<>>
    /\ node_id = NoneV
    /\ sensor_data = NoneV
    /\ calls = <<>>
    /\ stored = <<>>
    /\ pending = <<>>
    /\ log = <<>>
    /\ escaped = "none"
    /\ twin = TwinInit
    /\ pairOut = NoPair
    /\ pm25In = 0
    /\ aqiOut = NotComputed
    /\ aqiIn \in 0..MaxAqi
    /\ categoryOut = NoCategory
    /\ wire = NoWire
    /\ decrypted = NoDecrypt

ComputeCategory ==
    /\ ~categoryOut.done
    /\ categoryOut' = [done |-> TRUE, category |-> get_aqi_category(aqiIn)]
    /\ UNCHANGED <<alive, delivered, arrivals, node_id, sensor_data, calls,
                   stored, pending, log, escaped, twin, pairOut, pm25In,
                   aqiOut, aqiIn, wire, decrypted>>

NextCategory == ComputeCategory

SpecCategory == InitCategory /\ [][NextCategory]_vars

(***************************************************************************)
(* Two bridge processes with different histories.  FeedLeft and FeedRight  *)
(* give a message to one process only, building the two histories;         *)
(* FeedBoth then gives the same message to both, each with its own clock   *)
(* reading and its own sink condition.                                     *)
(***************************************************************************)
FrameOf(r) == [node_id |-> r.node_id, sensor_data |-> r.sensor_data]

(* what an invocation handed to the sink, the assembly timestamp excepted *)
Outcome(r) ==
    [i \in 1..Len(r.write.attempts) |->
        [r.write.attempts[i].point EXCEPT !.time = 0]]

FeedLeft(name, now, up) ==
    /\ ~pairOut.fed
    /\ twin.nl < MaxTwinMsgs
    /\ \E l \in {on_message(twin.left, Message(name), now, up)} :
          twin' = [twin EXCEPT !.left = FrameOf(l), !.nl = twin.nl + 1]
    /\ UNCHANGED <<alive, delivered, arrivals, node_id, sensor_data, calls,
                   stored, pending, log, escaped, pairOut, pm25In, aqiOut, aqiIn,
                   categoryOut, wire, decrypted>>

FeedRight(name, now, up) ==
    /\ ~pairOut.fed
    /\ twin.nr < MaxTwinMsgs
    /\ \E r \in {on_message(twin.right, Message(name), now, up)} :
          twin' = [twin EXCEPT !.right = FrameOf(r), !.nr = twin.nr + 1]
    /\ UNCHANGED <<alive, delivered, arrivals, node_id, sensor_data, calls,
                   stored, pending, log, escaped, pairOut, pm25In, aqiOut, aqiIn,
                   categoryOut, wire, decrypted>>

FeedBoth(name, nowL, upL, nowR, upR) ==
    /\ ~pairOut.fed
    /\ \E l \in {on_message(twin.left, Message(name), nowL, upL)},
          r \in {on_message(twin.right, Message(name), nowR, upR)} :
        /\ twin' = [left |-> FrameOf(l), right |-> FrameOf(r),
                    nl |-> twin.nl + 1, nr |-> twin.nr + 1]
        /\ pairOut' = [fed |-> TRUE, msg |-> name,
                       prevL |-> twin.left, prevR |-> twin.right,
                       left |-> Outcome(l), right |-> Outcome(r)]
    /\ UNCHANGED <<alive, delivered, arrivals, node_id, sensor_data, calls,
                   stored, pending, log, escaped, pm25In, aqiOut, aqiIn, categoryOut,
                   wire, decrypted>>

NextTwin ==
    \/ \E name \in StreamMsgs, now \in Clock, up \in BOOLEAN : FeedLeft(name, now, up)
    \/ \E name \in StreamMsgs, now \in Clock, up \in BOOLEAN : FeedRight(name, now, up)
    \/ \E name \in StreamMsgs, nowL \in Clock, nowR \in Clock,
          upL \in BOOLEAN, upR \in BOOLEAN : FeedBoth(name, nowL, upL, nowR, upR)

SpecTwin == Init /\ [][NextTwin]_vars

(***************************************************************************)
(* One message of a wire form.  A message is described by its form, its    *)
(* sender (a str member of a JSON envelope, a packet header of a binary    *)
(* one), the type member of a JSON envelope, the variant of a telemetry    *)
(* payload and the sensor mapping it was encoded from.                     *)
(***************************************************************************)
Absent == [kind |-> "absent"]

(* the air_quality_metrics of a sensor mapping: four uint32 fields, which  *)
(* hold integers from 0, and four float fields                             *)
(* The four float fields are binary32: assigning a double that is not a    *)
(* binary32 value stores the nearest one, which reads back as a different  *)
(* double.  Of the hundredths, the multiples of a quarter are binary32     *)
(* values; any other is marked as rounded.                                 *)
AirQualityMetrics(f) ==
    LET Float32(h) == IF h % 25 = 0 THEN FloatV(h)
                      ELSE [kind |-> "float", v |-> h, rounded |-> TRUE]
    IN  [pm10_standard |-> f["pm1"], pm25_standard |-> f["pm25"],
         pm40_standard |-> f["pm4"], pm100_standard |-> f["pm10"],
         pm_voc_idx |-> Float32(float(f["voc"]).val),
         pm_nox_idx |-> Float32(float(f["nox"]).val),
         pm_temperature |-> Float32(float(f["t"]).val),
         pm_humidity |-> Float32(float(f["rh"]).val)]

(* the mappings a Telemetry message can be built from *)
Representable67(f) ==
    /\ DOMAIN f = RequiredFields
    /\ \A k \in {"pm1", "pm25", "pm4", "pm10"} : f[k].kind = "int" /\ f[k].v >= 0
    /\ \A k \in {"voc", "nox", "t", "rh"} : f[k].kind \in {"int", "float"}

(* The text a sender puts around the serialised mapping: the object       *)
(* itself, the object between whitespace, an object cut short, text that   *)
(* is no object, nothing.                                                  *)
TextOf(shape, f) ==
    CASE shape = "object" -> dumps(f, FieldOrder)
      [] shape = "padded" -> <<WS>> \o dumps(f, FieldOrder) \o <<WS>>
      [] shape = "invalid" -> <<LB, Word("pm25")>>
      [] shape = "truncated" ->
           SubSeq(dumps(f, FieldOrder), 1, Len(dumps(f, FieldOrder)) - 1)
      [] shape = "plain" -> <<Word("Hello World")>>
      [] shape = "padded plain" -> <<WS, Word("hello")>>
      [] shape = "blank" -> <<WS>>
      [] OTHER -> <<>>

Encode(d) ==
    CASE d.form = "json" ->
           JsonEnvelope([k \in {"payload"}
                               \cup (IF d.type = Absent THEN {} ELSE {"type"})
                               \cup (IF d.sender = Absent THEN {} ELSE {"sender"})
                           |-> CASE k = "type" -> d.type
                                 [] k = "sender" -> d.sender
                                 [] OTHER -> DictV([text |-> StrV(TextOf(d.text,
                                                                         d.fields))])])
      [] d.form = "port1" ->
           BinaryEnvelope(d.sender, TEXT_MESSAGE_APP_PORT,
                          IF d.text = "not utf-8"
                          THEN Bytes(FALSE, FALSE, <<>>, Raise("DecodeError"))
                          ELSE TextBytes(TextOf(d.text, d.fields)))
      [] d.form = "other port" ->
           BinaryEnvelope(d.sender, d.port,
                          IF d.variant = "air_quality_metrics"
                          THEN TelemetryBytes(Telemetry(d.variant,
                                                        AirQualityMetrics(d.fields)))
                          ELSE TextBytes(TextOf(d.text, d.fields)))
      [] d.form = "port67" ->
           BinaryEnvelope(d.sender, TELEMETRY_APP_PORT,
                          IF d.variant = "air_quality_metrics"
                          THEN TelemetryBytes(Telemetry(d.variant,
                                                        AirQualityMetrics(d.fields)))
                          ELSE TelemetryBytes(Telemetry(d.variant, ZeroAq)))
      [] OTHER ->
           PbPayload(ServiceEnvelope(
               [from |-> d.sender, decoded |-> NoDecoded,
                encrypted |->
                    [cipher |-> d.variant,
                     plain |-> IF d.variant = "encrypted port 1 reading"
                               THEN Decoded(TEXT_MESSAGE_APP_PORT,
                                            TextBytes(dumps(d.fields, FieldOrder)))
                               ELSE NoDecoded]]))

WireMsgs ==
    LET text == StrV(<<Word("text")>>)
        nodeA == StrV(<<Word("nodeA")>>)
        e70287b5 == FromHeader(59138, 34741)
        aqm == "air_quality_metrics"
        base == SampleFields(IntV(45), IntV(50))
        Headers == {Unset, FromHeader(0, 0), FromHeader(65535, 65535), e70287b5,
                    FromHeader(4660, 22136), FromHeader(0, 10), FromHeader(1, 0)}
        Types == {StrV(<<Word("position")>>), StrV(<<Word("Text")>>), Absent,
                  NoneV, IntV(1)}
        Numeric == {[base EXCEPT !["pm25"] = pm25, !["voc"] = voc, !["t"] = t] :
                       pm25 \in {IntV(0), IntV(45), FloatV(450), FloatV(1205),
                                 IntV(500), IntV(-5), FloatV(-50)},
                       voc \in {FloatV(10300), IntV(103), FloatV(-100)},
                       t \in {FloatV(2470), FloatV(-525), IntV(0)}}
        Quarters == {[base EXCEPT !["pm25"] = pm25, !["voc"] = voc,
                                  !["nox"] = nox, !["t"] = t,
                                  !["rh"] = FloatV(6375)] :
                        pm25 \in {IntV(0), IntV(45)},
                        voc \in {FloatV(10300), IntV(103), IntV(0), FloatV(-100)},
                        nox \in {FloatV(100), FloatV(-25)},
                        t \in {FloatV(2475), FloatV(-525), IntV(0)}}
        Omitted == {Without(base, k) : k \in RequiredFields}
        Uncoerced == {[base EXCEPT ![k] = v] :
                         k \in RequiredFields,
                         v \in {StrV(<<Word("n/a")>>), NoneV, StrV(<<NumWord(450)>>)}}
        Shapes == {"padded", "invalid", "truncated", "plain", "padded plain",
                   "blank", "empty"}
        T(form, sender, type, variant, fields, shape, port) ==
            [form |-> form, sender |-> sender, type |-> type,
             variant |-> variant, fields |-> fields, text |-> shape,
             port |-> port]
        M(form, sender, type, variant, fields) ==
            T(form, sender, type, variant, fields, "object",
              CASE form = "port1" -> TEXT_MESSAGE_APP_PORT
                [] form = "port67" -> TELEMETRY_APP_PORT
                [] OTHER -> 0)
    IN  {M(form, h, Absent, aqm, base) : form \in {"port1", "port67"}, h \in Headers}
        \cup {M("json", sender, type, aqm, f) :
                 sender \in {nodeA, Absent}, type \in Types,
                 f \in {base, Without(base, "rh")}}
        \cup {M("port67", h, Absent, variant, base) :
                 h \in {e70287b5, FromHeader(0, 0)},
                 variant \in {"device_metrics", "environment_metrics"}}
        \cup {M("encrypted", h, Absent, cipher, base) :
                 h \in {e70287b5, FromHeader(0, 0)},
                 cipher \in {"none", "garbage", "encrypted port 1 reading"}}
        \cup {M("json", NoneV, text, aqm, base)}
        \cup {T("json", sender, text, aqm, base, shape, 0) :
                 sender \in {nodeA, Absent}, shape \in Shapes}
        \cup {T("port1", h, Absent, aqm, base, shape, TEXT_MESSAGE_APP_PORT) :
                 h \in {e70287b5, FromHeader(0, 0)},
                 shape \in Shapes \cup {"not utf-8"}}
        \cup {T("other port", e70287b5, Absent, variant, base, shape, port) :
                 variant \in {aqm, "text"}, shape \in {"object", "empty"},
                 port \in {0, 2, 3, 66, 68, 257}}
        \cup {M("json", sender, text, aqm, f) :
                 sender \in {nodeA, Absent, StrV(<<>>)},
                 f \in Numeric \cup Omitted \cup Uncoerced}
        \cup {M("port1", e70287b5, Absent, aqm, f) :
                 f \in Numeric \cup Omitted \cup Uncoerced}
        \cup {M("port67", e70287b5, Absent, aqm, f) :
                 f \in {g \in Numeric \cup Quarters : Representable67(g)}}

Deliver(d, now, up) ==
    /\ alive
    /\ wire = NoWire
    /\ \E r \in {on_message([node_id |-> node_id, sensor_data |-> sensor_data],
                           Msg(Encode(d)), now, up)} :
        /\ delivered' = delivered + 1
        /\ arrivals' = Append(arrivals, d.form)
        /\ node_id' = r.node_id
        /\ sensor_data' = r.sensor_data
        /\ calls' = calls \o Tagged(r.write.attempts, delivered + 1)
        /\ stored' = stored \o r.write.stored
        /\ pending' = pending \o r.write.pending
        /\ log' = r.log
        /\ escaped' = IF r.ctl = "raise" THEN r.exc ELSE "none"
        /\ alive' = (r.ctl # "raise")
        /\ wire' = [form |-> d.form, sender |-> d.sender, type |-> d.type,
                    variant |-> d.variant, fields |-> d.fields, text |-> d.text,
                    port |-> d.port, at |-> now]
    /\ UNCHANGED <<twin, pairOut, pm25In, aqiOut, aqiIn, categoryOut,
                   decrypted>>

NextWire == \E d \in WireMsgs, now \in Clock, up \in BOOLEAN : Deliver(d, now, up)

SpecWire == Init /\ [][NextWire]_vars

(***************************************************************************)
(* decrypt_payload of the diagnostic tools (src/test/test_mqtt_local.py).  *)
(* A bytes object is a sequence of byte values, of which the model keeps   *)
(* two, 0 and 255.  SHA-256 and AES are kept abstract: a digest is named   *)
(* by the bytes it was computed from, and a keystream byte is a function   *)
(* of the key, the counter block and the position, so that two keys can    *)
(* give two keystreams.                                                    *)
(***************************************************************************)
MaxCipherLen == 3

ByteValues == {0, 255}
BytesV(b) == [kind |-> "bytes", b |-> b]
Zeros(n) == [i \in 1..n |-> 0]

(* hashlib.sha256(psk).digest()[:16] *)
sha256_first16(psk) == [derived |-> "sha256", from |-> psk]

RECURSIVE Ones(_)
Ones(b) == IF b = <<>> THEN 0 ELSE (IF Head(b) = 0 THEN 0 ELSE 1) + Ones(Tail(b))

(* AES.new(key, AES.MODE_CTR, nonce=nonce12).decrypt(ciphertext): byte i   *)
(* is xored with keystream byte i % 16 of the block encrypted from the     *)
(* counter block nonce12 + (i / 16) as 4 bytes                             *)
KeystreamByte(key, nonce12, i) ==
    IF (Ones(key.from) + Len(key.from) + (IF key.derived = "sha256" THEN 1 ELSE 0)
           + Ones(nonce12) + (i \div 16) + (i % 16)) % 2 = 0
    THEN 0 ELSE 255

AES_CTR_decrypt(key, nonce12, ciphertext) ==
    [i \in 1..Len(ciphertext) |->
        IF ciphertext[i] = KeystreamByte(key, nonce12, i - 1) THEN 0 ELSE 255]

(* lines 43-54; a TypeError of len() or sha256() on a value that is not   *)
(* bytes is caught at line 52                                              *)
decrypt_payload(encrypted_bytes, psk) ==
    IF encrypted_bytes.kind # "bytes"
    THEN [ret |-> NoneV, raised |-> "none", printed |-> <<53>>]
    ELSE IF Len(encrypted_bytes.b) < 4
    THEN [ret |-> NoneV, raised |-> "none", printed |-> <<>>]
    ELSE IF psk.kind # "bytes"
    THEN [ret |-> NoneV, raised |-> "none", printed |-> <<53>>]
    ELSE [ret |-> BytesV(AES_CTR_decrypt(
                      sha256_first16(psk.b),
                      SubSeq(SubSeq(encrypted_bytes.b, 1, 4) \o Zeros(12), 1, 12),
                      SubSeq(encrypted_bytes.b, 5, Len(encrypted_bytes.b)))),
          raised |-> "none", printed |-> <<>>]

(* The inputs: None and every bytes object of up to 4 + MaxCipherLen       *)
(* bytes; no key, the default one-byte key, a 16-byte and a 17-byte key;   *)
(* the key derivation the deployment is configured for.                    *)
EncryptedInputs ==
    {NoneV} \cup {BytesV(b) : b \in UNION {[1..n -> ByteValues] :
                                            n \in 0..(4 + MaxCipherLen)}}
Psks == {NoneV, BytesV(<<75>>), BytesV([i \in 1..16 |-> 255]),
         BytesV([i \in 1..17 |-> IF i = 17 THEN 255 ELSE 0])}

InitDecrypt ==
    /\ alive = TRUE
    /\ delivered = 0
    /\ arrivals = <<>>
    /\ node_id = NoneV
    /\ sensor_data = NoneV
    /\ calls = <<>>
    /\ stored = <<>>
    /\ pending = <<>>
    /\ log = <<>>
    /\ escaped = "none"
    /\ twin = TwinInit
    /\ pairOut = NoPair
    /\ pm25In = 0
    /\ aqiOut = NotComputed
    /\ aqiIn = 0
    /\ categoryOut = NoCategory
    /\ wire = NoWire
    /\ decrypted \in {[done |-> FALSE, encrypted_bytes |-> e, psk |-> k,
                       derivation |-> kd] :
                         e \in EncryptedInputs, k \in Psks,
                         kd \in {"raw", "sha256"}}

DecryptPayload ==
    /\ ~decrypted.done
    /\ \E r \in {decrypt_payload(decrypted.encrypted_bytes, decrypted.psk)} :
          decrypted' = [done |-> TRUE,
                        encrypted_bytes |-> decrypted.encrypted_bytes,
                        psk |-> decrypted.psk,
                        derivation |-> decrypted.derivation,
                        ret |-> r.ret, raised |-> r.raised,
                        printed |-> r.printed]
    /\ UNCHANGED <<alive, delivered, arrivals, node_id, sensor_data, calls,
                   stored, pending, log, escaped, twin, pairOut, pm25In,
                   aqiOut, aqiIn, categoryOut, wire>>

NextDecrypt == DecryptPayload

SpecDecrypt == InitDecrypt /\ [][NextDecrypt]_vars

(***************************************************************************)
(* Properties                                                              *)
(***************************************************************************)
Range(seq) == {seq[i] : i \in 1..Len(seq)}

(* the write calls made while message number n was processed *)
CallsOf(n) == {i \in 1..Len(calls) : calls[i].seq = n}

(* the points of the calls the sink accepted, in call order *)
RECURSIVE AcceptedPoints(_)
AcceptedPoints(cs) ==
    IF cs = <<>> THEN <<>>
    ELSE (IF Head(cs).ok THEN <<Head(cs).point>> ELSE <<>>)
         \o AcceptedPoints(Tail(cs))

(* the identity each well-formed message of the stream names *)
ExpectedIdentity(name) ==
    IF name = "Scenario1" THEN StrV(<<Word("nodeA")>>)
    ELSE IF name = "Scenario2" THEN StrV(<<Word("!e70287b5")>>)
    ELSE StrV(<<Word("!12345678")>>)

(* C1: every message processed so far ended in exactly one of two         *)
(* outcomes, one write_api.write call or none at all; no message caused    *)
(* more than one call, and no exception escaped on_message.                *)
C1_OneWriteOrDrop ==
    /\ escaped = "none"
    /\ Len(arrivals) = delivered
    /\ \A n \in 1..delivered : Cardinality(CallsOf(n)) \in {0, 1}
    /\ \A i \in 1..Len(calls) : calls[i].seq \in 1..delivered

(* both outcomes have occurred, the drop being an internal fault that was  *)
(* caught at the message boundary                                          *)
C1_Witness ==
    /\ delivered = 2
    /\ Cardinality(CallsOf(1)) = 1
    /\ CallsOf(2) = {}
    /\ Line("error", 320) \in Range(log)

(* C2: ingestion never stops, and every well-formed message, whatever      *)
(* malformed messages, internal faults or failed writes came before it,    *)
(* is processed: its reading is handed to the sink and is in the sink when *)
(* the sink accepted it.                                                   *)
C2_IngestionContinues ==
    /\ alive
    /\ \A n \in 1..delivered :
         arrivals[n] \in WellFormedMsgs =>
           \E i \in CallsOf(n) :
              /\ calls[i].point.node_id = ExpectedIdentity(arrivals[n])
              /\ calls[i].ok => calls[i].point \in Range(stored)

(* an internal fault caught at the message boundary, then a well-formed    *)
(* message whose reading reached the sink                                  *)
C2_Witness ==
    /\ delivered = 2
    /\ arrivals[1] = "BadValue"
    /\ arrivals[2] = "Scenario1"
    /\ \E i \in CallsOf(2) : calls[i].ok /\ stored = <<calls[i].point>>

C5_ArrivalOrder ==
    /\ pending = <<>>
    /\ \A i, j \in 1..Len(calls) : i < j => calls[i].seq < calls[j].seq
    /\ \A i \in 1..Len(calls) :
         /\ calls[i].seq \in 1..Len(arrivals)
         /\ arrivals[calls[i].seq] \in WellFormedMsgs
         /\ calls[i].point.node_id = ExpectedIdentity(arrivals[calls[i].seq])
    /\ stored = AcceptedPoints(calls)

(* two different messages arrived and their readings reached the sink in   *)
(* arrival order                                                           *)
C5_Witness ==
    /\ delivered = 2
    /\ Len(stored) = 2
    /\ calls[1].seq = 1 /\ calls[2].seq = 2
    /\ stored[1].node_id = ExpectedIdentity(arrivals[1])
    /\ stored[2].node_id = ExpectedIdentity(arrivals[2])
    /\ arrivals[1] # arrivals[2]

PointsOf(n) == {calls[i].point : i \in CallsOf(n)}

(* C6 as stated: scenario 1 yields exactly one reading with identity       *)
(* nodeA, aqi 19 and category Good.                                        *)
C6_Scenario1_Aqi19 ==
    \A n \in 1..delivered :
       arrivals[n] = "Scenario1" =>
          /\ Cardinality(CallsOf(n)) = 1
          /\ \A pt \in PointsOf(n) :
                /\ pt.node_id = StrV(<<Word("nodeA")>>)
                /\ pt.aqi = 19
                /\ pt.aqi_category = "Good"

(* C6 amended: scenario 1 yields exactly one reading with identity nodeA,  *)
(* aqi 18 (18.75 truncated) and category Good.                             *)
C6_Scenario1 ==
    \A n \in 1..delivered :
       arrivals[n] = "Scenario1" =>
          /\ Cardinality(CallsOf(n)) = 1
          /\ \A pt \in PointsOf(n) :
                /\ pt.node_id = StrV(<<Word("nodeA")>>)
                /\ pt.pm25 = 450
                /\ pt.aqi = 18
                /\ pt.aqi_category = "Good"

C6_Witness ==
    /\ delivered = 2
    /\ arrivals[2] = "Scenario1"
    /\ Len(calls) = 1
    /\ calls[1].seq = 2

(* C7 as stated: scenario 2 yields exactly one reading with identity       *)
(* !e70287b5, an aqi in the index range 101..150 of the 35.5-55.4 segment, *)
(* and category Moderate.                                                  *)
C7_Scenario2_Moderate ==
    \A n \in 1..delivered :
       arrivals[n] = "Scenario2" =>
          /\ Cardinality(CallsOf(n)) = 1
          /\ \A pt \in PointsOf(n) :
                /\ pt.node_id = StrV(<<Word("!e70287b5")>>)
                /\ pt.aqi \in 101..150
                /\ pt.aqi_category = "Moderate"

(* C7 amended: scenario 2 yields exactly one reading with identity         *)
(* !e70287b5, aqi 124 in the index range 101..150 of the 35.5-55.4         *)
(* segment, and category Unhealthy for Sensitive Groups.                   *)
C7_Scenario2 ==
    \A n \in 1..delivered :
       arrivals[n] = "Scenario2" =>
          /\ Cardinality(CallsOf(n)) = 1
          /\ \A pt \in PointsOf(n) :
                /\ pt.node_id = StrV(<<Word("!e70287b5")>>)
                /\ pt.pm25 = 4500
                /\ pt.aqi = 124
                /\ pt.aqi \in 101..150
                /\ pt.aqi_category = "Unhealthy for Sensitive Groups"

C7_Witness ==
    /\ delivered = 1
    /\ arrivals[1] = "Scenario2"
    /\ Len(calls) = 1
    /\ calls[1].point.pm10 = 5000

(* C8: scenario 3, port 67 with air-quality metrics all zero, yields       *)
(* exactly one reading whose eight fields are zero, with aqi 0 and         *)
(* category Good.                                                          *)
C8_Scenario3 ==
    \A n \in 1..delivered :
       arrivals[n] = "Scenario3" =>
          /\ Cardinality(CallsOf(n)) = 1
          /\ \A pt \in PointsOf(n) :
                /\ pt.pm1 = 0 /\ pt.pm25 = 0 /\ pt.pm4 = 0 /\ pt.pm10 = 0
                /\ pt.voc = 0 /\ pt.nox = 0
                /\ pt.temperature = 0 /\ pt.humidity = 0
                /\ pt.aqi = 0
                /\ pt.aqi_category = "Good"

C8_Witness ==
    /\ delivered = 1
    /\ arrivals[1] = "Scenario3"
    /\ Len(stored) = 1
    /\ stored[1].pm25 = 0
    /\ stored[1].node_id = StrV(<<Word("!12345678")>>)

(* C9: calculate_aqi_pm25 returns the breakpoint table's index at every    *)
(* listed boundary, and for 400 the truncation of                          *)
(* 301 + 199/249.9 * (400 - 250.5), which is 420.                          *)
C9_BreakpointTable ==
    aqiOut.done =>
       /\ pm25In = 0 => aqiOut.aqi = 0
       /\ pm25In = 1200 => aqiOut.aqi = 50
       /\ pm25In = 1210 => aqiOut.aqi = 51
       /\ pm25In = 3540 => aqiOut.aqi = 100
       /\ pm25In = 3550 => aqiOut.aqi = 101
       /\ pm25In = 5540 => aqiOut.aqi = 150
       /\ pm25In = 5550 => aqiOut.aqi = 151
       /\ pm25In = 15040 => aqiOut.aqi = 200
       /\ pm25In = 15050 => aqiOut.aqi = 201
       /\ pm25In = 25040 => aqiOut.aqi = 300
       /\ pm25In = 25050 => aqiOut.aqi = 301
       /\ pm25In = 40000 =>
             /\ aqiOut.aqi = 420
             /\ aqiOut.aqi * 24990 <= 301 * 24990 + 199 * (pm25In - 25050)
             /\ 301 * 24990 + 199 * (pm25In - 25050) < (aqiOut.aqi + 1) * 24990

C9_Witness == aqiOut.done /\ pm25In = 40000 /\ aqiOut.aqi = 420

(* C10 as stated: the index of a concentration lies in the index sub-range *)
(* of the segment its upper-bound comparison selects.                      *)
C10_SegmentRange_AsStated ==
    aqiOut.done =>
       /\ pm25In <= 1200 => aqiOut.aqi \in 0..50
       /\ (1200 < pm25In /\ pm25In <= 3540) => aqiOut.aqi \in 51..100
       /\ (3540 < pm25In /\ pm25In <= 5540) => aqiOut.aqi \in 101..150
       /\ (5540 < pm25In /\ pm25In <= 15040) => aqiOut.aqi \in 151..200
       /\ (15040 < pm25In /\ pm25In <= 25040) => aqiOut.aqi \in 201..300
       /\ 25040 < pm25In => aqiOut.aqi >= 301

(* C10 amended: the index lies in the selected segment's sub-range when    *)
(* the concentration is at or above the segment's table lower bound        *)
(* (0.0, 12.1, 35.5, 55.5, 150.5, 250.5); for a concentration strictly     *)
(* between a range-test boundary and the next table lower bound the index  *)
(* is the top of the previous sub-range (50, 100, 150, 200, 300).          *)
C10_SegmentRange ==
    aqiOut.done =>
       /\ pm25In <= 1200 => aqiOut.aqi \in 0..50
       /\ (1200 < pm25In /\ pm25In < 1210) => aqiOut.aqi = 50
       /\ (1210 <= pm25In /\ pm25In <= 3540) => aqiOut.aqi \in 51..100
       /\ (3540 < pm25In /\ pm25In < 3550) => aqiOut.aqi = 100
       /\ (3550 <= pm25In /\ pm25In <= 5540) => aqiOut.aqi \in 101..150
       /\ (5540 < pm25In /\ pm25In < 5550) => aqiOut.aqi = 150
       /\ (5550 <= pm25In /\ pm25In <= 15040) => aqiOut.aqi \in 151..200
       /\ (15040 < pm25In /\ pm25In < 15050) => aqiOut.aqi = 200
       /\ (15050 <= pm25In /\ pm25In <= 25040) => aqiOut.aqi \in 201..300
       /\ (25040 < pm25In /\ pm25In < 25050) => aqiOut.aqi = 300
       /\ 25050 <= pm25In => aqiOut.aqi >= 301

(* a concentration between 12.0 and 12.1 *)
C10_Witness == aqiOut.done /\ pm25In = 1205 /\ aqiOut.aqi = 50

(* C11: get_aqi_category maps 0..50 to Good, 51..100 to Moderate, 101..150 *)
(* to Unhealthy for Sensitive Groups, 151..200 to Unhealthy, 201..300 to   *)
(* Very Unhealthy and every index above 300 to Hazardous, and it is        *)
(* monotonic: no smaller index has a label later in the order.             *)
C11_CategoryBands ==
    LET Rank(category) ==
            CASE category = "Good" -> 1
              [] category = "Moderate" -> 2
              [] category = "Unhealthy for Sensitive Groups" -> 3
              [] category = "Unhealthy" -> 4
              [] category = "Very Unhealthy" -> 5
              [] category = "Hazardous" -> 6
              [] OTHER -> 0
    IN
    categoryOut.done =>
       /\ (categoryOut.category = "Good") <=> (aqiIn <= 50)
       /\ (categoryOut.category = "Moderate") <=> (50 < aqiIn /\ aqiIn <= 100)
       /\ (categoryOut.category = "Unhealthy for Sensitive Groups")
             <=> (100 < aqiIn /\ aqiIn <= 150)
       /\ (categoryOut.category = "Unhealthy") <=> (150 < aqiIn /\ aqiIn <= 200)
       /\ (categoryOut.category = "Very Unhealthy")
             <=> (200 < aqiIn /\ aqiIn <= 300)
       /\ (categoryOut.category = "Hazardous") <=> (300 < aqiIn)
       /\ \A b \in 0..aqiIn :
             Rank(get_aqi_category(b)) <= Rank(categoryOut.category)

(* the largest index of the model, far above 300 *)
C11_Witness ==
    categoryOut.done /\ aqiIn = MaxAqi /\ categoryOut.category = "Hazardous"

(* C12: a binary envelope whose sender header is present and which is      *)
(* otherwise well-formed yields one reading whose identity is "!" and the  *)
(* header value as eight lower-case zero-padded hex digits; the header     *)
(* value 0 yields "!00000000", not a drop.                                 *)
C12_HeaderIdentity ==
    LET Rendered(h) ==
            CASE h = FromHeader(0, 0) -> "!00000000"
              [] h = FromHeader(65535, 65535) -> "!ffffffff"
              [] h = FromHeader(59138, 34741) -> "!e70287b5"
              [] h = FromHeader(4660, 22136) -> "!12345678"
              [] h = FromHeader(0, 10) -> "!0000000a"
              [] h = FromHeader(1, 0) -> "!00010000"
    IN  (/\ wire.form \in {"port1", "port67"}
         /\ wire.sender.set
         /\ wire.variant = "air_quality_metrics"
         /\ wire.text = "object"
         /\ wire.fields = SampleFields(IntV(45), IntV(50)))
        => /\ Len(calls) = 1
           /\ calls[1].point.node_id = StrV(<<Word(Rendered(wire.sender))>>)

(* a port-1 envelope with header value 0 whose reading the sink accepted *)
C12_Witness ==
    /\ wire.form = "port1"
    /\ wire.sender = FromHeader(0, 0)
    /\ Len(stored) = 1
    /\ stored[1].node_id = StrV(<<Word("!00000000")>>)

(* C13: a binary envelope whose sender header is not populated yields no   *)
(* identity and no sink write, even when its decoded sub-message carries   *)
(* complete valid sensor fields; it is not taken for the header value 0.   *)
C13_UnsetHeaderDropped ==
    (wire.form \in {"port1", "port67"} /\ ~wire.sender.set) => calls = <<>>

(* C14: a JSON envelope whose type member is not the string "text", or is  *)
(* absent, yields no sink write whatever its sender and its payload are,   *)
(* and the binary decode is not attempted: the invocation logs the         *)
(* reception and the skip, and nothing else.                               *)
C14_NonTextTypeSkipped ==
    (wire.form = "json" /\ wire.type # StrV(<<Word("text")>>))
    => /\ calls = <<>>
       /\ escaped = "none"
       /\ log = <<Line("debug", 202), Line("debug", 205)>>

(* an envelope without a type member that carries a complete reading *)
C14_Witness ==
    /\ wire.form = "json"
    /\ wire.type = Absent
    /\ wire.sender = StrV(<<Word("nodeA")>>)
    /\ wire.fields = SampleFields(IntV(45), IntV(50))
    /\ delivered = 1
    /\ calls = <<>>

(* C15: a binary packet on port 67 whose telemetry carries another variant *)
(* than air_quality_metrics yields no sink write, its sender header being  *)
(* valid.                                                                  *)
C15_OtherTelemetrySkipped ==
    (wire.form = "port67" /\ wire.variant # "air_quality_metrics")
    => /\ calls = <<>>
       /\ escaped = "none"
       /\ sensor_data = NoneV

(* device metrics from node e70287b5, dropped at line 278 *)
C15_Witness ==
    /\ wire.form = "port67"
    /\ wire.variant = "device_metrics"
    /\ node_id = StrV(<<Word("!e70287b5")>>)
    /\ log = <<Line("debug", 224), Line("debug", 238), Line("debug", 274),
               Line("debug", 278)>>

(* C16: a binary packet without a decoded sub-message makes on_message     *)
(* write nothing and never attempt decryption, whatever its encrypted      *)
(* bytes are: it stops at line 234 with no reading.                        *)
C16_EncryptedSkipped ==
    wire.form = "encrypted"
    => /\ calls = <<>>
       /\ stored = <<>>
       /\ escaped = "none"
       /\ sensor_data = NoneV
       /\ log = <<Line("debug", 224), Line("debug", 234)>>

(* encrypted bytes that hold a complete port-1 reading, from node e70287b5 *)
C16_Witness ==
    /\ wire.form = "encrypted"
    /\ wire.variant = "encrypted port 1 reading"
    /\ node_id = StrV(<<Word("!e70287b5")>>)
    /\ delivered = 1
    /\ calls = <<>>

(* C17: a JSON envelope or a binary port-1 text whose sensor mapping omits *)
(* one of the eight required keys, being otherwise well formed, yields no  *)
(* sink write: it is dropped at line 300.                                  *)
C17_MissingFieldDropped ==
    LET Sample == SampleFields(IntV(45), IntV(50))
        WellFormed ==
            \/ /\ wire.form = "json"
               /\ wire.type = StrV(<<Word("text")>>)
               /\ wire.sender = StrV(<<Word("nodeA")>>)
            \/ /\ wire.form = "port1"
               /\ wire.sender.set
    IN  \A key \in {"pm1", "pm25", "pm4", "pm10", "voc", "nox", "t", "rh"} :
            (wire.form \in {"json", "port1"} /\ WellFormed
                /\ wire.fields = Without(Sample, key))
            => /\ calls = <<>>
               /\ stored = <<>>
               /\ escaped = "none"
               /\ log # <<>>
               /\ log[Len(log)] = Line("warning", 300)

(* a port-1 text from node e70287b5 without pm25 *)
C17_Witness ==
    /\ wire.form = "port1"
    /\ wire.sender = FromHeader(59138, 34741)
    /\ wire.fields = Without(SampleFields(IntV(45), IntV(50)), "pm25")
    /\ node_id = StrV(<<Word("!e70287b5")>>)
    /\ "pm25" \notin DOMAIN sensor_data.items
    /\ calls = <<>>

(* C18, as stated: a complete sensor mapping representable in the wire     *)
(* form, encoded as a JSON text envelope, as binary port-1 text or as      *)
(* port-67 air-quality metrics, is decoded by the pipeline into a mapping  *)
(* equal to it value for value, an int and the float of the same value     *)
(* being equal.                                                            *)
C18_RoundTrip_AsStated ==
    LET Keys == {"pm1", "pm25", "pm4", "pm10", "voc", "nox", "t", "rh"}
        Num(x) == IF x.kind = "int" THEN FloatV(x.v * 100) ELSE x
        Complete(f) == DOMAIN f = Keys /\ \A k \in Keys : float(f[k]).exc = "none"
        Binary32(f) == \A k \in {"voc", "nox", "t", "rh"} : float(f[k]).val % 25 = 0
        Encoded ==
            \/ wire.form = "json" /\ wire.type = StrV(<<Word("text")>>)
            \/ wire.form = "port1"
            \/ /\ wire.form = "port67"
               /\ wire.variant = "air_quality_metrics"
               /\ Representable67(wire.fields)
               /\ Binary32(wire.fields)
    IN  (wire # NoWire /\ wire.text = "object" /\ Encoded /\ Complete(wire.fields))
        => /\ sensor_data.kind = "dict"
           /\ DOMAIN sensor_data.items = Keys
           /\ \A k \in Keys : Num(sensor_data.items[k]) = Num(wire.fields[k])

(* C18, amended: the round trip holds on the JSON envelope and on port-1   *)
(* text for every complete mapping, and on port-67 air-quality metrics for *)
(* every representable mapping whose voc and nox are not negative; a       *)
(* negative voc or nox sent on port 67 is decoded as 0, every other key    *)
(* still round-tripping.                                                   *)
C18_RoundTrip ==
    LET Keys == {"pm1", "pm25", "pm4", "pm10", "voc", "nox", "t", "rh"}
        Num(x) == IF x.kind = "int" THEN FloatV(x.v * 100) ELSE x
        Complete(f) == DOMAIN f = Keys /\ \A k \in Keys : float(f[k]).exc = "none"
        Binary32(f) == \A k \in {"voc", "nox", "t", "rh"} : float(f[k]).val % 25 = 0
        Encoded ==
            \/ wire.form = "json" /\ wire.type = StrV(<<Word("text")>>)
            \/ wire.form = "port1"
            \/ /\ wire.form = "port67"
               /\ wire.variant = "air_quality_metrics"
               /\ Representable67(wire.fields)
               /\ Binary32(wire.fields)
        Clamped(k) == /\ wire.form = "port67"
                      /\ k \in {"voc", "nox"}
                      /\ float(wire.fields[k]).val < 0
    IN  (wire # NoWire /\ wire.text = "object" /\ Encoded /\ Complete(wire.fields))
        => /\ sensor_data.kind = "dict"
           /\ DOMAIN sensor_data.items = Keys
           /\ \A k \in Keys :
                 IF Clamped(k) THEN sensor_data.items[k] = IntV(0)
                 ELSE Num(sensor_data.items[k]) = Num(wire.fields[k])

(* port-67 metrics with a negative temperature and a zero pm25, decoded *)
C18_Witness ==
    /\ wire.form = "port67"
    /\ wire.variant = "air_quality_metrics"
    /\ wire.fields["t"] = FloatV(-525)
    /\ wire.fields["voc"] = FloatV(10300)
    /\ wire.fields["pm25"] = IntV(0)
    /\ sensor_data.kind = "dict"
    /\ sensor_data.items["t"] = FloatV(-525)
    /\ sensor_data.items["rh"] = FloatV(6375)
    /\ Len(calls) = 1

(* C19: every record handed to the sink carries the eight fields as the    *)
(* decoded values of its own message coerced to float, the aqi of that     *)
(* message's pm25, the category of that aqi, the resolved identity and the *)
(* assembly time in nanoseconds; and a message with a value that cannot be *)
(* coerced to a number has no record written.                              *)
C19_RecordComplete ==
    LET Keys == {"pm1", "pm25", "pm4", "pm10", "voc", "nox", "t", "rh"}
        F(k) == float(sensor_data.items[k])
        Derived(pt) ==
            /\ sensor_data.kind = "dict"
            /\ Keys \subseteq DOMAIN sensor_data.items
            /\ \A k \in Keys : F(k).exc = "none"
            /\ DOMAIN pt = {"measurement", "node_id", "aqi_category", "pm1", "pm25",
                            "pm4", "pm10", "voc", "nox", "temperature",
                            "humidity", "aqi", "time"}
            /\ pt.measurement = "air_quality"
            /\ pt.pm1 = F("pm1").val /\ pt.pm25 = F("pm25").val
            /\ pt.pm4 = F("pm4").val /\ pt.pm10 = F("pm10").val
            /\ pt.voc = F("voc").val /\ pt.nox = F("nox").val
            /\ pt.temperature = F("t").val /\ pt.humidity = F("rh").val
            /\ pt.aqi = calculate_aqi_pm25(F("pm25").val)
            /\ pt.aqi_category = get_aqi_category(pt.aqi)
            /\ pt.node_id = node_id
            /\ pt.time = wire.at * 1000000
        FromWire(pt) ==
            wire.form \in {"json", "port1"}
            => /\ Keys \subseteq DOMAIN wire.fields
               /\ \A k \in Keys : float(wire.fields[k]).exc = "none"
               /\ pt.pm25 = float(wire.fields["pm25"]).val
               /\ pt.voc = float(wire.fields["voc"]).val
               /\ pt.temperature = float(wire.fields["t"]).val
               /\ pt.humidity = float(wire.fields["rh"]).val
        Uncoercible ==
            /\ wire.form \in {"json", "port1"}
            /\ \E k \in Keys \cap DOMAIN wire.fields :
                   float(wire.fields[k]).exc # "none"
    IN  wire # NoWire
        => /\ \A i \in 1..Len(calls) :
                  Derived(calls[i].point) /\ FromWire(calls[i].point)
           /\ Uncoercible => (calls = <<>> /\ stored = <<>> /\ escaped = "none")

(* a JSON reading with pm25 120.5 and temperature -5.25 assembled at 2 ms *)
C19_Witness ==
    /\ wire.form = "json"
    /\ Len(calls) = 1
    /\ wire.fields["pm25"] = FloatV(1205)
    /\ wire.fields["t"] = FloatV(-525)
    /\ wire.at = 2
    /\ calls[1].point.pm25 = 1205
    /\ calls[1].point.temperature = -525
    /\ calls[1].point.humidity = 6380
    /\ calls[1].point.time = 2000000
    /\ calls[1].point.node_id = StrV(<<Word("nodeA")>>)

(* C20: every reading handed to the sink has an aqi of at least 0, on each *)
(* of the three wire forms and for every numeric pm25 an accepted message  *)
(* can carry.                                                              *)
C20_AqiNonNegative ==
    \A i \in 1..Len(calls) : calls[i].point.aqi >= 0

(* C21: for a JSON envelope of type "text" whose payload.text begins with  *)
(* a brace but is not valid JSON, the binary envelope parser is not        *)
(* invoked (nothing of lines 216-290 runs), the identity stays the one of  *)
(* the envelope, and nothing is written.                                   *)
C21_BinaryOnlyAfterEnvelopeFailure ==
    (/\ wire.form = "json"
     /\ wire.type = StrV(<<Word("text")>>)
     /\ wire.text \in {"invalid", "truncated"})
    => /\ \A i \in 1..Len(log) : log[i].line \notin 216..290
       /\ node_id = IF wire.sender = Absent THEN StrV(<<Word("unknown")>>)
                    ELSE wire.sender
       /\ calls = <<>>
       /\ escaped = "none"

(* C22: a payload.text made of whitespace followed by a complete valid     *)
(* sensor object is trimmed before the leading-brace test, so that a JSON  *)
(* text envelope carrying it yields a reading just as a binary port-1      *)
(* envelope carrying the same text does.                                   *)
C22_NestedTextTrimmed ==
    (/\ \/ wire.form = "json" /\ wire.type = StrV(<<Word("text")>>)
        \/ wire.form = "port1" /\ wire.sender.set
     /\ wire.text = "padded")
    => /\ sensor_data = DictV(wire.fields)
       /\ Len(calls) = 1
       /\ calls[1].point.pm25 = float(wire.fields["pm25"]).val

(* C23: a JSON text envelope with complete valid sensor fields is written  *)
(* under its sender when the sender is present and not empty, under        *)
(* "unknown" when the sender key is absent, and is dropped without a sink  *)
(* write when the sender is the empty string or null.                      *)
C23_JsonIdentity ==
    LET Keys == {"pm1", "pm25", "pm4", "pm10", "voc", "nox", "t", "rh"}
        Valid == /\ wire.form = "json"
                 /\ wire.type = StrV(<<Word("text")>>)
                 /\ wire.text = "object"
                 /\ DOMAIN wire.fields = Keys
                 /\ \A k \in Keys : float(wire.fields[k]).exc = "none"
        Written(id) == /\ Len(calls) = 1
                       /\ calls[1].point.node_id = id
                       /\ node_id = id
    IN  Valid =>
          CASE wire.sender = Absent -> Written(StrV(<<Word("unknown")>>))
            [] wire.sender \in {NoneV, StrV(<<>>)} ->
                  /\ calls = <<>>
                  /\ escaped = "none"
                  /\ log = <<Line("debug", 202), Line("debug", 294)>>
            [] OTHER -> Written(wire.sender)

(* an envelope without a sender key, its reading accepted as "unknown" *)
C23_Witness ==
    /\ wire.form = "json"
    /\ wire.sender = Absent
    /\ wire.text = "object"
    /\ Len(stored) = 1
    /\ stored[1].node_id = StrV(<<Word("unknown")>>)

(* C24: a binary envelope whose decoded sub-message has a port other than  *)
(* 1 and 67 yields no reading and no sink write whatever its payload is,   *)
(* a complete valid sensor text included; a binary envelope that leads to  *)
(* a write is on port 1 or on port 67.                                     *)
C24_OtherPortSkipped ==
    /\ wire.form = "other port"
       => /\ wire.port \notin {TEXT_MESSAGE_APP_PORT, TELEMETRY_APP_PORT}
          /\ calls = <<>>
          /\ stored = <<>>
          /\ escaped = "none"
          /\ sensor_data = NoneV
    /\ (wire.form \in {"port1", "port67", "other port", "encrypted"}
            /\ calls # <<>>)
       => wire.port \in {TEXT_MESSAGE_APP_PORT, TELEMETRY_APP_PORT}

(* a complete sensor text on port 3 from node e70287b5, skipped at 285 *)
C24_Witness ==
    /\ wire.form = "other port"
    /\ wire.port = 3
    /\ wire.variant = "text"
    /\ wire.text = "object"
    /\ node_id = StrV(<<Word("!e70287b5")>>)
    /\ log = <<Line("debug", 224), Line("debug", 238), Line("debug", 285)>>
    /\ calls = <<>>

(* C25: on binary port 1 a payload that is not strict UTF-8, a text whose  *)
(* trimmed form does not begin with a brace, a text that begins with a     *)
(* brace but is invalid or truncated JSON, and an empty payload each yield *)
(* no reading and no sink write, and no exception is raised: each is       *)
(* dropped by its own test, none by an exception handler.                  *)
C25_MalformedTextDropped ==
    LET Last == log[Len(log)]
    IN  (wire.form = "port1" /\ wire.sender.set
            /\ wire.text \notin {"object", "padded"})
        => /\ calls = <<>>
           /\ stored = <<>>
           /\ escaped = "none"
           /\ sensor_data = NoneV
           /\ \A i \in 1..Len(log) : log[i].level # "error"
           /\ Last = CASE wire.text = "not utf-8" -> Line("warning", 255)
                       [] wire.text \in {"invalid", "truncated"} ->
                              Line("warning", 266)
                       [] wire.text = "empty" -> Line("debug", 244)
                       [] OTHER -> Line("debug", 269)

(* a sensor object cut before its closing brace, on port 1 *)
C25_Witness ==
    /\ wire.form = "port1"
    /\ wire.text = "truncated"
    /\ node_id = StrV(<<Word("!e70287b5")>>)
    /\ log[Len(log)] = Line("warning", 266)
    /\ calls = <<>>

(* C26: air-quality metrics on port 67 decode to a mapping with all eight  *)
(* keys, each taken from its own metric: a mass or index value v becomes v *)
(* when v > 0 and 0 otherwise, temperature and humidity keep their value   *)
(* (negative stays negative, zero is 0), and the reading is never dropped  *)
(* for a missing field.                                                    *)
C26_TelemetryMapping ==
    LET Keys == {"pm1", "pm25", "pm4", "pm10", "voc", "nox", "t", "rh"}
        Metric == [pm1 |-> "pm10_standard", pm25 |-> "pm25_standard",
                   pm4 |-> "pm40_standard", pm10 |-> "pm100_standard",
                   voc |-> "pm_voc_idx", nox |-> "pm_nox_idx",
                   t |-> "pm_temperature", rh |-> "pm_humidity"]
        Sent(k) == AirQualityMetrics(wire.fields)[Metric[k]]
        Got(k) == sensor_data.items[k]
    IN  (/\ wire.form = "port67"
         /\ wire.variant = "air_quality_metrics"
         /\ wire.sender.set)
        => /\ sensor_data.kind = "dict"
           /\ DOMAIN sensor_data.items = Keys
           /\ \A k \in Keys \ {"t", "rh"} :
                 IF Sent(k).v > 0 THEN Got(k) = Sent(k) ELSE Got(k) = IntV(0)
           /\ \A k \in {"t", "rh"} :
                 IF Sent(k).v = 0 THEN Got(k) = IntV(0) ELSE Got(k) = Sent(k)
           /\ \A i \in 1..Len(log) : log[i] # Line("warning", 300)
           /\ Len(calls) = 1

(* metrics with a negative VOC index, a negative temperature, pm25 of 0 *)
C26_Witness ==
    /\ wire.form = "port67"
    /\ wire.variant = "air_quality_metrics"
    /\ wire.fields["voc"] = FloatV(-100)
    /\ wire.fields["t"] = FloatV(-525)
    /\ wire.fields["pm25"] = IntV(0)
    /\ sensor_data.kind = "dict"
    /\ sensor_data.items["voc"] = IntV(0)
    /\ sensor_data.items["t"] = FloatV(-525)
    /\ sensor_data.items["pm25"] = IntV(0)
    /\ sensor_data.items["pm10"] = IntV(50)
    /\ Len(calls) = 1

(* C27, as stated: for every pm25 >= 0 the index is the truncation of      *)
(* (ihi - ilo) / (hi - lo_table) * (pm25 - lo_table) + ilo in the first    *)
(* segment whose upper bound is >= pm25 (else the last, with hi = 500.4    *)
(* and ihi = 500), and every pm25 > 500.4 yields an index above 500.       *)
C27_Formula_AsStated ==
    LET Seg == IF pm25In <= 1200 THEN <<0, 1200, 0, 50>>
               ELSE IF pm25In <= 3540 THEN <<1210, 3540, 51, 100>>
               ELSE IF pm25In <= 5540 THEN <<3550, 5540, 101, 150>>
               ELSE IF pm25In <= 15040 THEN <<5550, 15040, 151, 200>>
               ELSE IF pm25In <= 25040 THEN <<15050, 25040, 201, 300>>
               ELSE <<25050, 50040, 301, 500>>
        D == Seg[2] - Seg[1]
        N == (Seg[4] - Seg[3]) * (pm25In - Seg[1]) + Seg[3] * D
    IN  aqiOut.done =>
           /\ N >= 0
           /\ aqiOut.aqi * D <= N
           /\ N < (aqiOut.aqi + 1) * D
           /\ pm25In > 50040 => aqiOut.aqi > 500

(* C27, amended: the index is that truncation for every pm25 >= 0; past    *)
(* 500.4 it is not clamped: it is 500 up to 501.65, above 500 from 501.66  *)
(* on, and it follows the last segment's line beyond the ceiling.          *)
C27_Formula ==
    LET Seg == IF pm25In <= 1200 THEN <<0, 1200, 0, 50>>
               ELSE IF pm25In <= 3540 THEN <<1210, 3540, 51, 100>>
               ELSE IF pm25In <= 5540 THEN <<3550, 5540, 101, 150>>
               ELSE IF pm25In <= 15040 THEN <<5550, 15040, 151, 200>>
               ELSE IF pm25In <= 25040 THEN <<15050, 25040, 201, 300>>
               ELSE <<25050, 50040, 301, 500>>
        D == Seg[2] - Seg[1]
        N == (Seg[4] - Seg[3]) * (pm25In - Seg[1]) + Seg[3] * D
    IN  aqiOut.done =>
           /\ N >= 0
           /\ aqiOut.aqi * D <= N
           /\ N < (aqiOut.aqi + 1) * D
           /\ (50040 < pm25In /\ pm25In <= 50165) => aqiOut.aqi = 500
           /\ pm25In >= 50166 => aqiOut.aqi > 500

(* 600.0 lies past the last breakpoint and maps to 579 *)
C27_Witness == aqiOut.done /\ pm25In = 60000 /\ aqiOut.aqi = 579

(* C28: write_to_influxdb retries: a write attempt that failed is followed *)
(* by another attempt to write the same point for the same message before  *)
(* the failure is reported.                                                *)
C28_WriteRetried ==
    \A i \in 1..Len(calls) :
        ~calls[i].ok =>
            \/ \E j \in 1..(i - 1) : /\ calls[j].seq = calls[i].seq
                                     /\ calls[j].point = calls[i].point
            \/ \E j \in (i + 1)..Len(calls) : /\ calls[j].seq = calls[i].seq
                                              /\ calls[j].point = calls[i].point

(* C29: calculate_aqi_pm25 is non-decreasing over pm25 >= 0, across the    *)
(* segment boundaries and between a range-test boundary and the next table *)
(* lower bound: the index of a concentration is at least the index of the  *)
(* concentration 0.01 below it and of every breakpoint below it, and its   *)
(* category is no earlier in the order than theirs.                        *)
C29_Monotone ==
    LET Rank(category) ==
            CASE category = "Good" -> 1
              [] category = "Moderate" -> 2
              [] category = "Unhealthy for Sensitive Groups" -> 3
              [] category = "Unhealthy" -> 4
              [] category = "Very Unhealthy" -> 5
              [] category = "Hazardous" -> 6
        Below == {0, 1200, 1205, 1210, 3540, 3545, 3550, 5540, 5545, 5550,
                  15040, 15045, 15050, 25040, 25045, 25050, 50040}
        NotAbove(a) ==
            /\ calculate_aqi_pm25(a) <= aqiOut.aqi
            /\ Rank(get_aqi_category(calculate_aqi_pm25(a)))
                  <= Rank(get_aqi_category(aqiOut.aqi))
    IN  aqiOut.done =>
           /\ pm25In > 0 => NotAbove(pm25In - 1)
           /\ \A a \in Below : a <= pm25In => NotAbove(a)

(* 35.45 lies between the boundary 35.4 and the table lower bound 35.5 and *)
(* keeps the index 100 of 35.4                                             *)
C29_Witness ==
    /\ aqiOut.done
    /\ pm25In = 3545
    /\ aqiOut.aqi = 100
    /\ calculate_aqi_pm25(3540) = 100
    /\ calculate_aqi_pm25(3550) = 101

(* C30: decrypt_payload never raises and returns no result for an input    *)
(* shorter than 4 bytes and for any failure; for an input of n >= 4 bytes  *)
(* it returns exactly n - 4 bytes, the ciphertext after the 4-byte nonce   *)
(* decrypted under the counter block nonce + 12 zero bytes with the key    *)
(* of the configured derivation: the key material truncated or zero-padded *)
(* to 16 bytes, or the first 16 bytes of its hash.                         *)
C30_Decryptor ==
    LET e == decrypted.encrypted_bytes
        k == decrypted.psk
        Key == IF decrypted.derivation = "raw"
               THEN [derived |-> "raw", from |-> SubSeq(k.b \o Zeros(16), 1, 16)]
               ELSE [derived |-> "sha256", from |-> k.b]
        Nonce == SubSeq(e.b, 1, 4)
        Ciphertext == SubSeq(e.b, 5, Len(e.b))
    IN  decrypted.done =>
           /\ decrypted.raised = "none"
           /\ (e.kind # "bytes" \/ k.kind # "bytes") => decrypted.ret = NoneV
           /\ (e.kind = "bytes" /\ Len(e.b) < 4) => decrypted.ret = NoneV
           /\ (e.kind = "bytes" /\ k.kind = "bytes" /\ Len(e.b) >= 4)
              => /\ decrypted.ret.kind = "bytes"
                 /\ Len(decrypted.ret.b) = Len(e.b) - 4
                 /\ decrypted.ret.b =
                       AES_CTR_decrypt(Key, Nonce \o Zeros(8), Ciphertext)

====
